---------------------------- MODULE Spec2Model ----------------------------
(***************************************************************************)
(* A model of the reTeX lexical front end: the command identifier table    *)
(* (crates/retex-lex/src/command_identifier.rs), the category code table   *)
(* (category_code.rs) and the lexer state machine (lexer.rs).              *)
(*                                                                         *)
(* Positions are 0-based as in the source; the byte at position p of a     *)
(* slice s is s[p + 1].  A handle of a CommandIdentifier is the index of   *)
(* its allocation in the arena: two references are pointer-equal exactly   *)
(* when they name the same allocation.                                     *)
(***************************************************************************)
EXTENDS Integers, Sequences, FiniteSets, TLC

(***************************************************************************)
(* Bounds of the model.                                                    *)
(***************************************************************************)
\* longest input of the general lexer specification
MaxLen == 3
\* most chunks of an input of the control-sequence specification
MaxChunks == 4
\* most set_category_code calls on one lexer
MaxCatChanges == 1
\* most lex() calls made after the first Eof was returned
MaxExtraLex == 1
\* most get_or_insert calls of the table specification
MaxCalls == 4
\* longest name handed to get_or_insert in the table specification
MaxNameLen == 2
\* pieces of an input of line pieces
MaxLineChunks == 4
\* bytes of an input of the decoder
MaxDecodeLen == 4
\* pieces of an input of parameter characters and digits
MaxParamChunks == 3
\* pieces of an input with a remapped end-of-line character
MaxEolChunks == 4
\* pieces of an input with active characters
MaxActiveChunks == 4
\* files a source manager registers in a preprocessor session
MaxFiles == 2
\* depth of the include stack in a preprocessor session
MaxDepth == 2
\* Preprocessor::lex calls in a preprocessor session
MaxPpLex == 4
\* pieces of an input with bytes from 0x80 up
MaxByteChunks == 3
\* CategoryCodeTable::set calls on one table
MaxSets == 2

(***************************************************************************)
(* Bytes the source names.                                                 *)
(***************************************************************************)
CARET == 94
CR == 13
LF == 10
\* the offset of SourceLocation::invalid().  u32::MAX lies outside TLC's
\* integers; what the model keeps of it is that no valid offset equals it.
INVALID_OFFSET == -1
\* 2^16: a u32 is kept as two halves of sixteen bits
HALF == 65536
\* MaybeChar::NON_CHAR_BYTE_TAG, 0x1000_0000
NON_CHAR_BYTE_TAG == 268435456
\* U+FFFD, the replacement character
REPLACEMENT_CHARACTER == 65533

VARIABLES
    lexer,        \* Lexer: input, category_code_table, next_token_start_pos,
                  \*        at_start_of_line, skip_spaces
    token,        \* the token record the caller hands to lex()
    previous,     \* the caller's clone of the token of the preceding call
    origin,       \* history: what the last lex() call dispatched and stripped
    previous_origin, \* history: origin of the preceding call
    progress,     \* history: lex() calls made, Eof tokens returned, token
                  \*   lengths summed, bytes stripped per reason
    arena,        \* CommandIdentifierTable.arena: the identifiers allocated
    table,        \* CommandIdentifierTable.table: name bytes -> handle
    calls,        \* history: the get_or_insert calls, name and handle returned
    cat_changes,  \* number of set_category_code calls made so far
    source_manager, \* SourceManager: files, next_file_id, next_source_offset
    include_stack,  \* Preprocessor: the stack of lexers, each with its file_id
    session,      \* history of a preprocessor session: whether the
                  \* preprocessor exists yet, what the last call returned
    peeked        \* history: the last get_char_and_size call made from
                  \*   outside lex(), its position and its result

vars == <<lexer, token, previous, origin, previous_origin, progress,
          arena, table, calls, cat_changes, source_manager, include_stack,
          session, peeked>>

(***************************************************************************)
(* CategoryCodeTable                                                       *)
(***************************************************************************)
CategoryCode ==
    {"Escape", "BeginGroup", "EndGroup", "MathShift", "AlignmentTab",
     "EndOfLine", "Parameter", "Superscript", "Subscript", "Ignored",
     "Space", "Letter", "Other", "Active", "Comment", "Invalid"}

\* MaybeChar::from_char: the scalar value of the character, c as u32
from_char(c) == c

\* a from_non_char_byte that leaves the tag out
from_non_char_byte_untagged(b) == b

\* MaybeChar::from_non_char_byte: NON_CHAR_BYTE_TAG | b; the byte has no bit
\* of the tag, so the bitwise or is the sum
from_non_char_byte(b) == NON_CHAR_BYTE_TAG + b

\* the keys CategoryCodeTable::new inserts
DefaultKeys ==
    {92, 123, 125, 36, 38, 13, 10, 35, 94, 95, 0, 127, 32, 9, 126, 37}
        \cup (97..122) \cup (65..90)

NewCategoryCodeTable ==
    [k \in DefaultKeys |->
        CASE k = 92 -> "Escape"
          [] k = 123 -> "BeginGroup"
          [] k = 125 -> "EndGroup"
          [] k = 36 -> "MathShift"
          [] k = 38 -> "AlignmentTab"
          [] k \in {13, 10} -> "EndOfLine"
          [] k = 35 -> "Parameter"
          [] k = 94 -> "Superscript"
          [] k = 95 -> "Subscript"
          [] k \in {0, 127} -> "Ignored"
          [] k \in {32, 9} -> "Space"
          [] k = 126 -> "Active"
          [] k = 37 -> "Comment"
          [] OTHER -> "Letter"]

\* CategoryCodeTable::get: a key that was never assigned is Other
Get(cct, ch) == IF ch \in DOMAIN cct THEN cct[ch] ELSE "Other"

\* a set that keeps the entry of a character that has one
Set_keeps_entry(cct, ch, category_code) ==
    [k \in DOMAIN cct \cup {ch} |-> IF k \in DOMAIN cct THEN cct[k]
                                    ELSE category_code]

\* CategoryCodeTable::set: HashMap::insert
Set(cct, ch, category_code) ==
    [k \in DOMAIN cct \cup {ch} |-> IF k = ch THEN category_code ELSE cct[k]]

is_letter(cct, ch) == Get(cct, ch) = "Letter"
is_space(cct, ch) == Get(cct, ch) = "Space"
is_ignored(cct, ch) == Get(cct, ch) = "Ignored"
is_space_or_ignored(cct, ch) == Get(cct, ch) \in {"Space", "Ignored"}
\* is_eol comparing with the wrong category
is_eol_compares_space(cct, ch) == Get(cct, ch) = "Space"

is_eol(cct, ch) == Get(cct, ch) = "EndOfLine"

(***************************************************************************)
(* CommandIdentifierTable                                                  *)
(***************************************************************************)
EmptyTable == [b \in {} |-> 0]

\* CommandIdentifier::as_bytes of the identifier a handle points to
as_bytes(ar, handle) == ar[handle].bytes

\* get_or_insert without the lookup: every call allocates
get_or_insert_always_allocates(ar, tb, name_bytes) ==
    LET command_identifier == Len(ar) + 1
    IN [handle |-> command_identifier,
        arena |-> Append(ar, [bytes |-> name_bytes]),
        table |-> [b \in DOMAIN tb \cup {name_bytes} |->
                     IF b = name_bytes THEN command_identifier ELSE tb[b]]]

\* get_or_insert that copies the name through a lossy text conversion
get_or_insert_lossy_copy(ar, tb, name_bytes) ==
    IF name_bytes \in DOMAIN tb
    THEN [handle |-> tb[name_bytes], arena |-> ar, table |-> tb]
    ELSE LET command_identifier == Len(ar) + 1
             stable_identifier ==
                 [i \in DOMAIN name_bytes |->
                     IF name_bytes[i] >= 128 THEN 63 ELSE name_bytes[i]]
         IN [handle |-> command_identifier,
             arena |-> Append(ar, [bytes |-> stable_identifier]),
             table |-> [b \in DOMAIN tb \cup {name_bytes} |->
                          IF b = name_bytes THEN command_identifier ELSE tb[b]]]

\* CommandIdentifierTable::get_or_insert: the handle returned and the table
\* after the call.  A miss allocates the name and the identifier in the
\* arena (the handle is the new allocation) and inserts it under the name.
get_or_insert(ar, tb, name_bytes) ==
    IF name_bytes \in DOMAIN tb
    THEN [handle |-> tb[name_bytes], arena |-> ar, table |-> tb]
    ELSE LET command_identifier == Len(ar) + 1
         IN [handle |-> command_identifier,
             arena |-> Append(ar, [bytes |-> name_bytes]),
             table |-> [b \in DOMAIN tb \cup {name_bytes} |->
                          IF b = name_bytes THEN command_identifier ELSE tb[b]]]

(***************************************************************************)
(* The logical character decoder                                           *)
(***************************************************************************)
is_ascii_hexdigit(b) == b \in (48..57) \cup (65..70) \cup (97..102)
is_ascii_digit(b) == b \in 48..57

\* the outcome of the unreachable!() arm of hex_char_to_value: no value of
\* a hex digit
UNREACHABLE == 256

hex_char_to_value(ch) ==
    CASE ch \in 48..57 -> ch - 48
      [] ch \in 97..102 -> ch - 97 + 10
      [] ch \in 65..70 -> ch - 65 + 10
      [] OTHER -> UNREACHABLE

NoChar == [some |-> FALSE, ch |-> 0, size |-> 0, transformed |-> FALSE]
SomeChar(ch, size, transformed) ==
    [some |-> TRUE, ch |-> ch, size |-> size, transformed |-> transformed]

\* get_char_and_size that takes the last byte of the input for its end
get_char_and_size_short(input, current_pos) ==
    IF current_pos + 1 >= Len(input) THEN NoChar
    ELSE SomeChar(input[current_pos + 1], 1, FALSE)

\* get_char_and_size that adds 64 to every operand of ^^X
get_char_and_size_caret_adds(input, current_pos) ==
    IF current_pos >= Len(input) THEN NoChar
    ELSE LET ch == input[current_pos + 1] IN
         IF ch = CARET /\ current_pos + 2 < Len(input)
                       /\ input[current_pos + 2] = CARET
         THEN LET third_char == input[current_pos + 3] IN
              IF /\ current_pos + 3 < Len(input)
                 /\ is_ascii_hexdigit(third_char)
                 /\ is_ascii_hexdigit(input[current_pos + 4])
              THEN SomeChar((hex_char_to_value(third_char) * 16
                               + hex_char_to_value(input[current_pos + 4])) % 256,
                            4, TRUE)
              ELSE SomeChar((third_char + 64) % 256, 3, TRUE)
         ELSE IF ch = CR /\ current_pos + 1 < Len(input)
                         /\ input[current_pos + 2] = LF
         THEN SomeChar(CR, 2, TRUE)
         ELSE SomeChar(ch, 1, FALSE)

\* get_char_and_size that reads \r and \n as two characters
get_char_and_size_unfolded(input, current_pos) ==
    IF current_pos >= Len(input) THEN NoChar
    ELSE LET ch == input[current_pos + 1] IN
         IF ch = CARET /\ current_pos + 2 < Len(input)
                       /\ input[current_pos + 2] = CARET
         THEN LET third_char == input[current_pos + 3] IN
              IF /\ current_pos + 3 < Len(input)
                 /\ is_ascii_hexdigit(third_char)
                 /\ is_ascii_hexdigit(input[current_pos + 4])
              THEN SomeChar((hex_char_to_value(third_char) * 16
                               + hex_char_to_value(input[current_pos + 4])) % 256,
                            4, TRUE)
              ELSE SomeChar(IF third_char >= 64 THEN third_char - 64
                                                ELSE third_char + 64,
                            3, TRUE)
         ELSE SomeChar(ch, 1, FALSE)

\* Lexer::get_char_and_size
get_char_and_size(input, current_pos) ==
    IF current_pos >= Len(input) THEN NoChar
    ELSE LET ch == input[current_pos + 1] IN
         IF ch = CARET /\ current_pos + 2 < Len(input)
                       /\ input[current_pos + 2] = CARET
         THEN LET third_char == input[current_pos + 3] IN
              IF /\ current_pos + 3 < Len(input)
                 /\ is_ascii_hexdigit(third_char)
                 /\ is_ascii_hexdigit(input[current_pos + 4])
              THEN SomeChar((hex_char_to_value(third_char) * 16
                               + hex_char_to_value(input[current_pos + 4])) % 256,
                            4, TRUE)
              ELSE SomeChar(IF third_char >= 64 THEN third_char - 64
                                                ELSE third_char + 64,
                            3, TRUE)
         ELSE IF ch = CR /\ current_pos + 1 < Len(input)
                         /\ input[current_pos + 2] = LF
         THEN SomeChar(CR, 2, TRUE)
         ELSE SomeChar(ch, 1, FALSE)

\* Lexer::peek_char
peek_char(input, current_pos) == get_char_and_size(input, current_pos)

\* Lexer::consume_char: the position after the logical character
consume_char(input, current_pos) ==
    current_pos + get_char_and_size(input, current_pos).size


(***************************************************************************)
(* Token                                                                   *)
(***************************************************************************)
START_OF_LINE == "START_OF_LINE"

NoData == [variant |-> "None", bytes |-> <<>>, id |-> 0]

\* Token::reset (and Token::default)
reset ==
    [kind |-> "Unknown", flags |-> {}, location |-> INVALID_OFFSET, length |-> 0,
     data |-> NoData]

\* Token::set_kind
set_kind(tok, kind) == [tok EXCEPT !.kind = kind]

\* the assertion of Token::set_token_data on the kind of the token
set_token_data_asserts(kind, data) ==
    CASE data.variant = "None" -> TRUE
      [] data.variant = "Char" -> kind \in {"Letter", "Other"}
      [] data.variant = "ParameterIndex" -> kind = "Parameter"
      [] data.variant = "Symbol" -> kind = "ControlSymbol"
      [] data.variant = "CommandIdentifier" -> kind \in {"ControlWord", "ActiveChar"}

\* Token::set_token_data, where its assertion holds
set_token_data(tok, data) == [tok EXCEPT !.data = data]

\* Token::char, parameter_index, symbol and command_identifier: the
\* accessor whose assertion on the kind holds for the token finds another
\* variant than its own and reaches unreachable!()
reaches_unreachable(tok) ==
    \/ tok.kind \in {"Letter", "Other"} /\ tok.data.variant # "Char"
    \/ tok.kind = "Parameter" /\ tok.data.variant # "ParameterIndex"
    \/ tok.kind = "ControlSymbol" /\ tok.data.variant # "Symbol"
    \/ /\ tok.kind \in {"ControlWord", "ActiveChar"}
       /\ tok.data.variant # "CommandIdentifier"

\* Token::start_token, called first by lex(): the record is reset
start_token(tok) == reset

\* Token::set_raw_bytes: the payload becomes the given decoded bytes
set_raw_bytes(tok, bytes) ==
    [tok EXCEPT !.data = [variant |-> "RawBytes", bytes |-> bytes, id |-> 0]]

\* Token::symbol for the bytes kept by set_raw_bytes on a control symbol:
\* the single character after the escape character, absent when the escape
\* character was the last byte of the input
symbol(tok) ==
    LET escape == get_char_and_size(tok.data.bytes, 0)
        c == get_char_and_size(tok.data.bytes, escape.size)
    IN IF tok.data.variant = "RawBytes" /\ escape.some /\ c.some
       THEN [some |-> TRUE, ch |-> c.ch]
       ELSE [some |-> FALSE, ch |-> 0]

\* Token::char for the byte kept by set_raw_bytes on a Letter or Other
\* token: char::from(byte), the code point U+0000 to U+00FF that has the
\* value of the byte
char(tok) == tok.data.bytes[1]

\* Token::set_command_identifier: the payload becomes the handle
set_command_identifier(tok, handle) ==
    [tok EXCEPT !.data = [variant |-> "CommandIdentifier", bytes |-> <<>>,
                          id |-> handle]]

\* Token::at_start_of_line
at_start_of_line(tok) == START_OF_LINE \in tok.flags

\* input[from..to], a slice of the input
Slice(input, from, to) == SubSeq(input, from + 1, to)

(***************************************************************************)
(* Lexer                                                                   *)
(***************************************************************************)
\* Lexer::from_bytes
from_bytes(input) ==
    [input |-> input,
     category_code_table |-> NewCategoryCodeTable,
     next_token_start_pos |-> 0,
     at_start_of_line |-> TRUE,
     skip_spaces |-> TRUE]

\* form_token that leaves next_token_start_pos where it was
form_token_keeps_cursor(lx, tok, kind, cur_token_end_pos) ==
    [lexer |-> lx,
     token |-> [tok EXCEPT
                  !.kind = kind,
                  !.location = lx.next_token_start_pos,
                  !.length = cur_token_end_pos - lx.next_token_start_pos]]

\* Lexer::form_token.  The `as u32` casts truncate only offsets of 4 GiB and
\* more, which no input of the model reaches.
form_token(lx, tok, kind, cur_token_end_pos) ==
    [lexer |-> [lx EXCEPT !.next_token_start_pos = cur_token_end_pos],
     token |-> [tok EXCEPT
                  !.kind = kind,
                  !.location = lx.next_token_start_pos,
                  !.length = cur_token_end_pos - lx.next_token_start_pos]]

\* Lexer::form_token_from_input
form_token_from_input(lx, tok, kind, cur_token_end_pos) ==
    LET input_bytes == Slice(lx.input, lx.next_token_start_pos, cur_token_end_pos)
        r == form_token(lx, tok, kind, cur_token_end_pos)
    IN [r EXCEPT !.token = set_raw_bytes(@, input_bytes)]

\* form_token_with_char that counts the decoded character, not its raw bytes
form_token_with_char_decoded_length(lx, tok, kind, ch, cur_token_end_pos) ==
    LET r == form_token(lx, tok, kind, cur_token_end_pos)
    IN [r EXCEPT !.token = [set_raw_bytes(@, <<ch>>) EXCEPT !.length = 1]]

\* Lexer::form_token_with_char
form_token_with_char(lx, tok, kind, ch, cur_token_end_pos) ==
    LET r == form_token(lx, tok, kind, cur_token_end_pos)
    IN [r EXCEPT !.token = set_raw_bytes(@, <<ch>>)]

\* finish_line's loop skipping the byte after \r without looking at it
RECURSIVE finish_line_scan_blind_skip(_, _)
finish_line_scan_blind_skip(input, pos) ==
    IF pos < Len(input)
    THEN LET ch == input[pos + 1] IN
         IF ch = CR THEN pos + 2
         ELSE IF ch = LF THEN pos + 1
         ELSE finish_line_scan_blind_skip(input, pos + 1)
    ELSE pos

\* the while loop of Lexer::finish_line: the position it stops at
RECURSIVE finish_line_scan(_, _)
finish_line_scan(input, pos) ==
    IF pos < Len(input)
    THEN LET ch == input[pos + 1] IN
         IF ch = CR
         THEN IF pos + 1 < Len(input) /\ input[pos + 2] = LF
              THEN pos + 2 ELSE pos + 1
         ELSE IF ch = LF THEN pos + 1
         ELSE finish_line_scan(input, pos + 1)
    ELSE pos

\* finish_line that moves the cursor and leaves the state of the line alone
finish_line_same_line(lx) ==
    [lx EXCEPT !.next_token_start_pos =
                   finish_line_scan(lx.input, lx.next_token_start_pos)]

\* Lexer::finish_line
finish_line(lx) ==
    LET pos == finish_line_scan(lx.input, lx.next_token_start_pos) IN
    IF pos < Len(lx.input)
    THEN [lx EXCEPT !.next_token_start_pos = pos,
                    !.at_start_of_line = TRUE,
                    !.skip_spaces = TRUE]
    ELSE [lx EXCEPT !.next_token_start_pos = pos]

\* the loops of lex() that consume logical characters while their category is
\* in cats: the position reached and the bytes consumed per category
RECURSIVE skip_while(_, _, _, _)
skip_while(lx, cats, current_pos, counts) ==
    LET c == peek_char(lx.input, current_pos) IN
    IF c.some /\ Get(lx.category_code_table, c.ch) \in cats
    THEN skip_while(lx, cats, consume_char(lx.input, current_pos),
                    IF is_ignored(lx.category_code_table, c.ch)
                    THEN [counts EXCEPT !.ignored = @ + c.size]
                    ELSE [counts EXCEPT !.spaces = @ + c.size])
    ELSE [pos |-> current_pos, counts |-> counts]

\* Preprocessor::lookup_command_identifier: interning in the ambient table
lookup_command_identifier(ar, tb, name_bytes) == get_or_insert(ar, tb, name_bytes)

\* interning that hands owned bytes to the arena without the lookup
intern_name_owned_unshared(ar, tb, name_bytes, owned) ==
    IF owned
    THEN [handle |-> Len(ar) + 1,
          arena |-> Append(ar, [bytes |-> name_bytes]),
          table |-> tb]
    ELSE lookup_command_identifier(ar, tb, name_bytes)

\* the end of lex_control_word_continue: the name, borrowed from the input or
\* owned, is looked up in the table of the preprocessor
intern_name(ar, tb, name_bytes, owned) ==
    lookup_command_identifier(ar, tb, name_bytes)

\* the first loop looking at the transformation before the category
RECURSIVE scan_borrowed_takes_transformed(_, _, _)
scan_borrowed_takes_transformed(lx, control_word_start, current_pos) ==
    LET c == get_char_and_size(lx.input, current_pos) IN
    IF c.some /\ c.transformed
    THEN [pos |-> consume_char(lx.input, current_pos),
          owned |-> TRUE,
          bytes |-> Append(Slice(lx.input, control_word_start, current_pos),
                           c.ch)]
    ELSE IF c.some /\ is_letter(lx.category_code_table, c.ch)
    THEN scan_borrowed_takes_transformed(lx, control_word_start,
                                         consume_char(lx.input, current_pos))
    ELSE [pos |-> current_pos, owned |-> FALSE, bytes |-> <<>>]

\* first loop of lex_control_word_continue (no owned bytes yet): letters are
\* consumed until a non-letter, the end of input, or a transformed letter,
\* which starts the owned buffer with the raw bytes scanned so far
RECURSIVE scan_borrowed(_, _, _)
scan_borrowed(lx, control_word_start, current_pos) ==
    LET c == get_char_and_size(lx.input, current_pos) IN
    IF c.some /\ is_letter(lx.category_code_table, c.ch)
    THEN IF c.transformed
         THEN [pos |-> consume_char(lx.input, current_pos),
               owned |-> TRUE,
               bytes |-> Append(Slice(lx.input, control_word_start, current_pos),
                                c.ch)]
         ELSE scan_borrowed(lx, control_word_start,
                            consume_char(lx.input, current_pos))
    ELSE [pos |-> current_pos, owned |-> FALSE, bytes |-> <<>>]

\* the second loop pushing the byte under the cursor, not the decoded letter
RECURSIVE scan_owned_pushes_raw(_, _, _)
scan_owned_pushes_raw(lx, current_pos, owned_bytes) ==
    LET c == peek_char(lx.input, current_pos) IN
    IF c.some /\ is_letter(lx.category_code_table, c.ch)
    THEN scan_owned_pushes_raw(lx, consume_char(lx.input, current_pos),
                               Append(owned_bytes, lx.input[current_pos + 1]))
    ELSE [pos |-> current_pos, bytes |-> owned_bytes]

\* second loop of lex_control_word_continue: letters pushed on the owned bytes
RECURSIVE scan_owned(_, _, _)
scan_owned(lx, current_pos, owned_bytes) ==
    LET c == peek_char(lx.input, current_pos) IN
    IF c.some /\ is_letter(lx.category_code_table, c.ch)
    THEN scan_owned(lx, consume_char(lx.input, current_pos),
                    Append(owned_bytes, c.ch))
    ELSE [pos |-> current_pos, bytes |-> owned_bytes]

\* Lexer::lex_control_word_continue; current_pos is after the first letter
lex_control_word_continue(lx, tok, ar, tb, current_pos, first_ch, first_ch_size, is_first_ch_transformed) ==
    LET control_word_start == current_pos - first_ch_size
        first == IF is_first_ch_transformed
                 THEN [pos |-> current_pos, owned |-> TRUE, bytes |-> <<first_ch>>]
                 ELSE scan_borrowed(lx, control_word_start, current_pos)
        rest == IF first.owned
                THEN scan_owned(lx, first.pos, first.bytes)
                ELSE [pos |-> first.pos, bytes |-> <<>>]
        name_bytes == IF first.owned THEN rest.bytes
                      ELSE Slice(lx.input, control_word_start, rest.pos)
        formed == form_token(lx, tok, "ControlWord", rest.pos)
        id == intern_name(ar, tb, name_bytes, first.owned)
    IN [lexer |-> [formed.lexer EXCEPT !.skip_spaces = TRUE],
        token |-> set_command_identifier(formed.token, id.handle),
        arena |-> id.arena,
        table |-> id.table,
        interned |-> <<[name |-> name_bytes, owned |-> first.owned]>>]

\* lex_control_sequence that takes one byte for the character of a control
\* symbol
lex_control_sequence_symbol_one_byte(lx, tok, ar, tb, current_pos) ==
    LET after_escape == consume_char(lx.input, current_pos)
        c == get_char_and_size(lx.input, after_escape)
    IN IF c.some
       THEN IF is_letter(lx.category_code_table, c.ch)
            THEN lex_control_word_continue(
                     lx, tok, ar, tb, consume_char(lx.input, after_escape),
                     c.ch, c.size, c.transformed)
            ELSE LET formed == form_token_from_input(
                                   [lx EXCEPT !.skip_spaces =
                                        is_space(lx.category_code_table, c.ch)],
                                   tok, "ControlSymbol", after_escape + 1)
                 IN [lexer |-> formed.lexer, token |-> formed.token,
                     arena |-> ar, table |-> tb, interned |-> <<>>]
       ELSE LET formed == form_token_from_input(lx, tok, "ControlSymbol",
                                                after_escape)
            IN [lexer |-> formed.lexer, token |-> formed.token,
                arena |-> ar, table |-> tb, interned |-> <<>>]

\* lex_control_sequence that leaves skip_spaces alone after a control symbol
lex_control_sequence_keeps_spaces(lx, tok, ar, tb, current_pos) ==
    LET after_escape == consume_char(lx.input, current_pos)
        c == get_char_and_size(lx.input, after_escape)
    IN IF c.some
       THEN IF is_letter(lx.category_code_table, c.ch)
            THEN lex_control_word_continue(
                     lx, tok, ar, tb, consume_char(lx.input, after_escape),
                     c.ch, c.size, c.transformed)
            ELSE LET formed == form_token_from_input(
                                   lx, tok, "ControlSymbol",
                                   consume_char(lx.input, after_escape))
                 IN [lexer |-> formed.lexer, token |-> formed.token,
                     arena |-> ar, table |-> tb, interned |-> <<>>]
       ELSE LET formed == form_token_from_input(lx, tok, "ControlSymbol",
                                                after_escape)
            IN [lexer |-> formed.lexer, token |-> formed.token,
                arena |-> ar, table |-> tb, interned |-> <<>>]

\* lex_control_sequence that forgets the escape character it consumed when
\* the input ends after it
lex_control_sequence_lone_escape(lx, tok, ar, tb, current_pos) ==
    LET after_escape == consume_char(lx.input, current_pos)
        c == get_char_and_size(lx.input, after_escape)
    IN IF c.some
       THEN IF is_letter(lx.category_code_table, c.ch)
            THEN lex_control_word_continue(
                     lx, tok, ar, tb, consume_char(lx.input, after_escape),
                     c.ch, c.size, c.transformed)
            ELSE LET formed == form_token_from_input(
                                   [lx EXCEPT !.skip_spaces =
                                        is_space(lx.category_code_table, c.ch)],
                                   tok, "ControlSymbol",
                                   consume_char(lx.input, after_escape))
                 IN [lexer |-> formed.lexer, token |-> formed.token,
                     arena |-> ar, table |-> tb, interned |-> <<>>]
       ELSE LET formed == form_token_from_input(lx, tok, "ControlSymbol",
                                                current_pos)
            IN [lexer |-> formed.lexer, token |-> formed.token,
                arena |-> ar, table |-> tb, interned |-> <<>>]

\* Lexer::lex_control_sequence; current_pos is at the escape character
lex_control_sequence(lx, tok, ar, tb, current_pos) ==
    LET after_escape == consume_char(lx.input, current_pos)
        c == get_char_and_size(lx.input, after_escape)
    IN IF c.some
       THEN IF is_letter(lx.category_code_table, c.ch)
            THEN lex_control_word_continue(
                     lx, tok, ar, tb, consume_char(lx.input, after_escape),
                     c.ch, c.size, c.transformed)
            ELSE LET formed == form_token_from_input(
                                   [lx EXCEPT !.skip_spaces =
                                        is_space(lx.category_code_table, c.ch)],
                                   tok, "ControlSymbol",
                                   consume_char(lx.input, after_escape))
                 IN [lexer |-> formed.lexer, token |-> formed.token,
                     arena |-> ar, table |-> tb, interned |-> <<>>]
       ELSE LET formed == form_token_from_input(lx, tok, "ControlSymbol",
                                                after_escape)
            IN [lexer |-> formed.lexer, token |-> formed.token,
                arena |-> ar, table |-> tb, interned |-> <<>>]

\* Lexer::lex_parameter_token; current_pos is at the parameter character
lex_parameter_token(lx, tok, current_pos) ==
    LET after_hash == consume_char(lx.input, current_pos)
        c == peek_char(lx.input, after_hash)
        end == IF c.some /\ is_ascii_digit(c.ch)
               THEN consume_char(lx.input, after_hash) ELSE after_hash
    IN form_token_from_input(lx, tok, "Parameter", end)

\* the kind chosen from the flag of the lexer, which lex() has cleared
eol_token_kind_from_lexer_flag(lx, tok) ==
    IF lx.at_start_of_line THEN "Paragraph" ELSE "Space"

\* the kind of the token of an EndOfLine character: a \par at the start of
\* a line, a space in the middle of one
eol_token_kind(lx, tok) ==
    IF at_start_of_line(tok) THEN "Paragraph" ELSE "Space"

\* what one lex() call consumed without a token: bytes of Ignored characters,
\* of Space characters, of comments, and of the rest of a line discarded
\* after a remapped end-of-line character; and how many Space characters
\* were dispatched while the token had START_OF_LINE
NoCounts ==
    [ignored |-> 0, spaces |-> 0, comment |-> 0, line |-> 0, flagged |-> 0]

\* the record lex() leaves behind: the lexer, the token, the identifier table
\* and the history of the call (category and byte dispatched, bytes stripped,
\* cursor at the start of every iteration of the main loop, name interned,
\* bytes stripped after the token was formed)
Returned(lx, tok, ar, tb, category, ch, counts, starts, interned) ==
    [lexer |-> lx, token |-> tok, arena |-> ar, table |-> tb,
     origin |-> [category |-> category, ch |-> ch, counts |-> counts,
                 starts |-> starts, interned |-> interned,
                 trailing |-> IF tok.location = INVALID_OFFSET THEN 0
                              ELSE lx.next_token_start_pos
                                     - (tok.location + tok.length)]]

\* the two skipping loops at the head of an iteration of lex(): Space and
\* Ignored characters while skip_spaces is set, then Ignored characters
\* an Ignored loop that skips nothing
skip_ignored_nothing(lx, s) == s

skip_ignored(lx, s) == skip_while(lx, {"Ignored"}, s.pos, s.counts)

\* skipping loops that skip Ignored characters only, also while skip_spaces
\* is set
skip_blanks_ignored_only(lx, counts) ==
    skip_ignored(lx, [pos |-> lx.next_token_start_pos, counts |-> counts])

skip_blanks(lx, counts) ==
    skip_ignored(lx,
        IF lx.skip_spaces
        THEN skip_while(lx, {"Space", "Ignored"}, lx.next_token_start_pos,
                        counts)
        ELSE [pos |-> lx.next_token_start_pos, counts |-> counts])

\* the `loop` of Lexer::lex: one iteration skips, commits the cursor, hands
\* START_OF_LINE to the token and dispatches on the category of the
\* character at the cursor
RECURSIVE lex_loop(_, _, _, _, _, _)

\* the dispatch of lex(); lx is the lexer with the cursor committed, c the
\* logical character at the cursor
lex_dispatch(lx, tok, ar, tb, c, counts, starts) ==
    LET input == lx.input
        cct == lx.category_code_table
        current_pos == lx.next_token_start_pos
        ch == c.ch
        category_code == Get(cct, ch)
        single(kind) ==
            LET formed == form_token_with_char(lx, tok, kind, ch,
                                               consume_char(input, current_pos))
            IN Returned(formed.lexer, formed.token, ar, tb, category_code, ch,
                        counts, starts, <<>>)
    IN
    IF ~c.some
    THEN LET formed == form_token_from_input(lx, tok, "Eof", current_pos)
         IN Returned(formed.lexer, formed.token, ar, tb, "Eof", 0, counts,
                     starts, <<>>)
    ELSE
    CASE category_code = "Escape" ->
           LET r == lex_control_sequence(lx, tok, ar, tb, current_pos)
           IN Returned(r.lexer, r.token, r.arena, r.table, category_code, ch,
                       counts, starts, r.interned)
      [] category_code = "BeginGroup" -> single("BeginGroup")
      [] category_code = "EndGroup" -> single("EndGroup")
      [] category_code = "MathShift" -> single("MathShift")
      [] category_code = "AlignmentTab" -> single("AlignmentTab")
      [] category_code = "EndOfLine" ->
           LET token_kind == eol_token_kind(lx, tok)
               formed == form_token_with_char(lx, tok, token_kind, ch,
                                              consume_char(input, current_pos))
               done == IF ch # CR /\ ch # LF
                       THEN finish_line(formed.lexer)
                       ELSE [formed.lexer EXCEPT !.at_start_of_line = TRUE,
                                                 !.skip_spaces = TRUE]
           IN Returned(done, formed.token, ar, tb, category_code, ch,
                       [counts EXCEPT !.line = @ + done.next_token_start_pos
                                       - formed.lexer.next_token_start_pos],
                       starts, <<>>)
      [] category_code = "Parameter" ->
           LET formed == lex_parameter_token(lx, tok, current_pos)
           IN Returned(formed.lexer, formed.token, ar, tb, category_code, ch,
                       counts, starts, <<>>)
      [] category_code = "Superscript" -> single("Superscript")
      [] category_code = "Subscript" -> single("Subscript")
      [] category_code = "Ignored" ->
           \* unreachable!(): the call panics and returns nothing
           Returned(lx, tok, ar, tb, "Panic", ch, counts, starts, <<>>)
      [] category_code = "Space" ->
           LET formed == form_token_with_char(lx, tok, "Space", ch,
                                              consume_char(input, current_pos))
               run == skip_while(lx, {"Space"},
                                 formed.lexer.next_token_start_pos,
                                 IF at_start_of_line(tok)
                                 THEN [counts EXCEPT !.flagged = @ + 1]
                                 ELSE counts)
               next_ch == peek_char(input, run.pos)
               emit_space_token == next_ch.some /\ ~is_eol(cct, next_ch.ch)
               lx2 == [formed.lexer EXCEPT !.next_token_start_pos = run.pos]
           IN IF ~emit_space_token
              THEN lex_loop(lx2, formed.token, ar, tb,
                            [run.counts EXCEPT !.spaces = @ + c.size], starts)
              ELSE Returned(lx2, formed.token, ar, tb, category_code, ch,
                            run.counts, starts, <<>>)
      [] category_code = "Letter" -> single("Letter")
      [] category_code = "Other" -> single("Other")
      [] category_code = "Active" -> single("ActiveChar")
      [] category_code = "Comment" ->
           LET done == finish_line(lx)
           IN lex_loop(done, tok, ar, tb,
                       [counts EXCEPT !.comment = @ + done.next_token_start_pos
                                       - lx.next_token_start_pos],
                       starts)
      [] category_code = "Invalid" -> single("InvalidChar")

\* the head of an iteration: the cursor is committed after the skipping
\* loops, and at_start_of_line moves from the lexer to the token
\* an iteration that hands START_OF_LINE to the token and leaves
\* at_start_of_line set
lex_commit_keeps_line_start(lx, tok, ar, tb, s, starts) ==
    lex_dispatch([lx EXCEPT !.skip_spaces = FALSE,
                            !.next_token_start_pos = s.pos],
                 IF lx.at_start_of_line
                 THEN [tok EXCEPT !.flags = @ \cup {START_OF_LINE}]
                 ELSE tok,
                 ar, tb, peek_char(lx.input, s.pos), s.counts,
                 Append(starts, lx.next_token_start_pos))

lex_commit(lx, tok, ar, tb, s, starts) ==
    lex_dispatch([lx EXCEPT !.skip_spaces = FALSE,
                            !.next_token_start_pos = s.pos,
                            !.at_start_of_line = FALSE],
                 IF lx.at_start_of_line
                 THEN [tok EXCEPT !.flags = @ \cup {START_OF_LINE}]
                 ELSE tok,
                 ar, tb, peek_char(lx.input, s.pos), s.counts,
                 Append(starts, lx.next_token_start_pos))

lex_loop(lx, tok, ar, tb, counts, starts) ==
    lex_commit(lx, tok, ar, tb, skip_blanks(lx, counts), starts)

\* a lex() that fills the record as the caller left it
lex_fills_in_place(lx, tok, ar, tb) == lex_loop(lx, tok, ar, tb, NoCounts, <<>>)

\* Lexer::lex
lex(lx, tok, ar, tb) == lex_loop(lx, start_token(tok), ar, tb, NoCounts, <<>>)

(***************************************************************************)
(* SourceManager                                                           *)
(***************************************************************************)
\* MemoryBuffer::from_vec / from_slice: the bytes and the name of the buffer
MemoryBuffer(data, buffer_name) == [data |-> data, buffer_name |-> buffer_name]

\* SourceManager::new; files maps FileId values to FileEntry records
NewSourceManager ==
    [files |-> <<>>, next_file_id |-> 0, next_source_offset |-> 0]

\* FileEntry::new
FileEntry(path, buffer, start_offset) ==
    [path |-> path, buffer |-> buffer, start_offset |-> start_offset,
     size |-> Len(buffer.data)]

\* FileEntry::end_offset
end_offset(file_entry) == file_entry.start_offset + file_entry.size

\* Option<u32> and Option<SourceLocation>
SomeValue(v) == [kind |-> "Some", value |-> v]
NoValue == [kind |-> "None", value |-> INVALID_OFFSET]

\* FileEntry::contains_location with the end of the file inside
contains_location_through_end(file_entry, loc) ==
    loc >= file_entry.start_offset /\ loc <= end_offset(file_entry)

\* FileEntry::contains_location
contains_location(file_entry, loc) ==
    loc >= file_entry.start_offset /\ loc < end_offset(file_entry)

\* FileEntry::location_to_offset
location_to_offset(file_entry, loc) ==
    IF contains_location(file_entry, loc)
    THEN SomeValue(loc - file_entry.start_offset)
    ELSE NoValue

\* FileEntry::offset_to_location
offset_to_location(file_entry, offset) ==
    IF offset <= file_entry.size
    THEN SomeValue(file_entry.start_offset + offset)
    ELSE NoValue

\* SourceManager::get_file (the entry of a loaded file)
get_file(sm, file_id) == sm.files[file_id]

\* SourceManager::is_file_loaded
is_file_loaded(sm, file_id) == file_id \in DOMAIN sm.files

\* SourceManager::file_count
file_count(sm) == Cardinality(DOMAIN sm.files)

\* SourceManager::get_buffer_data
get_buffer_data(sm, file_id) == get_file(sm, file_id).buffer

\* a u32 of the value n, for n below 2^31
u32(n) == [hi |-> n \div HALF, lo |-> n % HALF]

\* u32::MAX - n, for n below 2^16
u32_max_less(n) == [hi |-> HALF - 1, lo |-> HALF - 1 - n]

\* a + b on u32 overflows
overflows(a, b) == a.hi + b.hi + (a.lo + b.lo) \div HALF >= HALF

\* a + b on u32, wrapped around
wrapping_add(a, b) ==
    [hi |-> (a.hi + b.hi + (a.lo + b.lo) \div HALF) % HALF,
     lo |-> (a.lo + b.lo) % HALF]

\* a as usize <= n, for a length n below 2^16
at_most(a, n) == a.hi = 0 /\ a.lo <= n

\* the outcomes of a call that returns Option<&[u8]>
SomeSlice(bytes) == [kind |-> "Some", bytes |-> bytes]
NoSlice == [kind |-> "None", bytes |-> <<>>]
PanicSlice == [kind |-> "Panic", bytes |-> <<>>]

\* &data[start_idx..end_idx]: panics unless start_idx <= end_idx <= len
index_range(data, start_idx, end_idx) ==
    IF at_most(end_idx, Len(data)) /\ at_most(start_idx, end_idx.lo)
    THEN SomeSlice(SubSeq(data, start_idx.lo + 1, end_idx.lo))
    ELSE PanicSlice

\* SourceManager::get_buffer_slice; start + len is a u32 addition, which
\* panics on overflow in a build with overflow checks and wraps in one
\* without
get_buffer_slice(sm, file_id, start, len, overflow_checks) ==
    IF ~is_file_loaded(sm, file_id) THEN NoSlice
    ELSE IF overflows(start, len) /\ overflow_checks THEN PanicSlice
    ELSE IF at_most(wrapping_add(start, len),
                    Len(get_file(sm, file_id).buffer.data))
    THEN index_range(get_file(sm, file_id).buffer.data, start,
                     wrapping_add(start, len))
    ELSE NoSlice

\* HashMap::insert
insert(files, file_id, file_entry) ==
    [k \in DOMAIN files \cup {file_id} |->
        IF k = file_id THEN file_entry ELSE files[k]]

\* an add_buffer that leaves the watermark where it was
add_buffer_keeps_watermark(sm, buffer, path) ==
    LET file_id == sm.next_file_id
        file_entry == FileEntry(IF path = "" THEN buffer.buffer_name ELSE path,
                                buffer, sm.next_source_offset)
    IN [file_id |-> file_id,
        source_manager |->
            [files |-> insert(sm.files, file_id, file_entry),
             next_file_id |-> sm.next_file_id + 1,
             next_source_offset |-> sm.next_source_offset]]

\* SourceManager::add_buffer; a path of "" stands for None
add_buffer(sm, buffer, path) ==
    LET file_id == sm.next_file_id
        file_entry == FileEntry(IF path = "" THEN buffer.buffer_name ELSE path,
                                buffer, sm.next_source_offset)
    IN [file_id |-> file_id,
        source_manager |->
            [files |-> insert(sm.files, file_id, file_entry),
             next_file_id |-> sm.next_file_id + 1,
             next_source_offset |-> end_offset(file_entry)]]

\* std::fs::read in the file system of a session: main.tex and sub.tex can
\* be read, the other paths fail with an I/O error
fs_read(path) ==
    CASE path = "main.tex" -> [ok |-> TRUE, contents |-> <<97, 98>>, error |-> ""]
      [] path = "sub.tex" -> [ok |-> TRUE, contents |-> <<99>>, error |-> ""]
      [] path = "missing.tex" ->
           [ok |-> FALSE, contents |-> <<>>, error |-> "NotFound"]
      [] OTHER -> [ok |-> FALSE, contents |-> <<>>, error |-> "PermissionDenied"]

\* a load_file that takes the next file id before it reads the file
load_file_read_reserves_id(sm, path, read) ==
    IF ~read.ok
    THEN [ok |-> FALSE, error |-> read.error, file_id |-> INVALID_OFFSET,
          source_manager |-> [sm EXCEPT !.next_file_id = @ + 1]]
    ELSE LET added == add_buffer(sm, MemoryBuffer(read.contents, path), path)
         IN [ok |-> TRUE, error |-> "", file_id |-> added.file_id,
             source_manager |-> added.source_manager]

\* what load_file does with what std::fs::read returned
load_file_read(sm, path, read) ==
    IF ~read.ok
    THEN [ok |-> FALSE, error |-> read.error, file_id |-> INVALID_OFFSET,
          source_manager |-> sm]
    ELSE LET added == add_buffer(sm, MemoryBuffer(read.contents, path), path)
         IN [ok |-> TRUE, error |-> "", file_id |-> added.file_id,
             source_manager |-> added.source_manager]

\* SourceManager::load_file
load_file(sm, path) == load_file_read(sm, path, fs_read(path))

(***************************************************************************)
(* Preprocessor                                                            *)
(***************************************************************************)
\* Lexer::from_memory_buffer: a lexer on the bytes of the buffer
from_memory_buffer(buffer) == from_bytes(buffer.data)

\* an enter_file that switches lexers: the new lexer takes the place of the
\* current one
enter_file_replaces_top(sm, stack, file_id) ==
    IF ~is_file_loaded(sm, file_id)
    THEN stack
    ELSE Append(SubSeq(stack, 1, Len(stack) - 1),
                [lexer |-> from_memory_buffer(get_buffer_data(sm, file_id)),
                 file_id |-> file_id])

\* Preprocessor::enter_file: the include stack it leaves
enter_file(sm, stack, file_id) ==
    IF ~is_file_loaded(sm, file_id)
    THEN stack
    ELSE Append(stack, [lexer |-> from_memory_buffer(get_buffer_data(sm, file_id)),
                        file_id |-> file_id])

\* what enter_main_file does with what load_file returned
enter_main_file_loaded(stack, loaded) ==
    IF ~loaded.ok
    THEN [ok |-> FALSE, error |-> loaded.error,
          source_manager |-> loaded.source_manager, include_stack |-> stack]
    ELSE [ok |-> TRUE, error |-> "",
          source_manager |-> loaded.source_manager,
          include_stack |-> enter_file(loaded.source_manager, stack,
                                       loaded.file_id)]

\* Preprocessor::enter_main_file
enter_main_file(sm, stack, path) ==
    enter_main_file_loaded(stack, load_file(sm, path))

\* the bottom of the include stack instead of its top
current_lexer_bottom(stack) == IF stack = <<>> THEN 0 ELSE 1

\* Preprocessor::current_lexer: the index of the top of the include stack,
\* 0 for None
current_lexer(stack) == Len(stack)

\* what Preprocessor::lex returns once the current lexer has lexed: r is the
\* result of its lex() call
Preprocessor_lexed(stack, top, r) ==
    [result |-> TRUE,
     include_stack |-> [stack EXCEPT ![top].lexer = r.lexer],
     token |-> r.token, arena |-> r.arena, table |-> r.table]

\* Preprocessor::lex
Preprocessor_lex(stack, tok, ar, tb) ==
    IF current_lexer(stack) # 0
    THEN Preprocessor_lexed(stack, current_lexer(stack),
                            lex(stack[current_lexer(stack)].lexer, tok, ar, tb))
    ELSE [result |-> FALSE, include_stack |-> stack, token |-> tok,
          arena |-> ar, table |-> tb]

(***************************************************************************)
(* The inputs                                                              *)
(***************************************************************************)
\* the bytes of the inputs: \ ^ CR LF space % a DEL |
Alphabet == {92, 94, 13, 10, 32, 37, 97, 127, 124}

\* the set_category_code calls made on a live lexer
CatChanges == {<<124, "EndOfLine">>, <<124, "Invalid">>, <<10, "Other">>}

\* pieces of the inputs of the control-sequence specification:
\* \  a  ^^! (decodes to a)  space  ^^? (decodes to DEL)  %  CR LF
\* ^^A (decodes to 0x01)  ^^` (decodes to a space)
Chunks == {<<92>>, <<97>>, <<94, 94, 33>>, <<32>>, <<94, 94, 63>>, <<37>>,
           <<13, 10>>, <<94, 94, 65>>, <<94, 94, 96>>}

SeqsUpTo(S, n) == UNION {[1..k -> S] : k \in 0..n}

RECURSIVE Concat(_)
Concat(ss) == IF ss = <<>> THEN <<>> ELSE Head(ss) \o Concat(Tail(ss))

(***************************************************************************)
(* History                                                                 *)
(***************************************************************************)
NoOrigin ==
    [category |-> "None", ch |-> 0, counts |-> NoCounts, starts |-> <<>>,
     interned |-> <<>>, trailing |-> 0, follows |-> "None", calls |-> 0]

\* no get_char_and_size call from outside lex() yet
NoPeek == [pos |-> INVALID_OFFSET, char |-> NoChar]

\* no preprocessor yet, no call made
NoSession ==
    [constructed |-> FALSE, call |-> "None", ok |-> TRUE, error |-> "",
     path |-> "", file_id |-> INVALID_OFFSET, result |-> TRUE, lexed |-> 0,
     start |-> 0, len |-> 0, slice |-> [kind |-> "None", bytes |-> <<>>],
     offset |-> NoValue, location |-> NoValue]

NoProgress == [lexed |-> 0, eofs |-> 0, lengths |-> 0, stripped |-> NoCounts]

AddCounts(a, b) ==
    [ignored |-> a.ignored + b.ignored, spaces |-> a.spaces + b.spaces,
     comment |-> a.comment + b.comment, line |-> a.line + b.line,
     flagged |-> a.flagged + b.flagged]

\* the category, in the table of the lexer, of the logical character that
\* starts right after the given token ("Eof" at the end of the input)
CategoryAfter(lx, tok) ==
    IF tok.location = INVALID_OFFSET THEN "None"
    ELSE LET c == peek_char(lx.input, tok.location + tok.length) IN
         IF c.some THEN Get(lx.category_code_table, c.ch) ELSE "Eof"

(***************************************************************************)
(* The lexer driven as the tests drive it: a loop of lex() calls on one    *)
(* token record, with set_category_code calls in between.                  *)
(***************************************************************************)
InitWith(input) ==
    /\ lexer = from_bytes(input)
    /\ token = reset
    /\ previous = reset
    /\ origin = NoOrigin
    /\ previous_origin = NoOrigin
    /\ progress = NoProgress
    /\ arena = <<>>
    /\ table = EmptyTable
    /\ calls = <<>>
    /\ cat_changes = 0
    /\ source_manager = NewSourceManager
    /\ include_stack = <<>>
    /\ session = NoSession
    /\ peeked = NoPeek

Init == \E input \in SeqsUpTo(Alphabet, MaxLen) : InitWith(input)

\* what a lex() call leaves in the state of the session: r is its result
Lexed(r) ==
    /\ lexer' = r.lexer
    /\ token' = r.token
    /\ arena' = r.arena
    /\ table' = r.table
    /\ previous' = token
    /\ previous_origin' = origin
    /\ origin' = [category |-> r.origin.category,
                  ch |-> r.origin.ch,
                  counts |-> r.origin.counts,
                  starts |-> r.origin.starts,
                  interned |-> r.origin.interned,
                  trailing |-> r.origin.trailing,
                  follows |-> CategoryAfter(lexer, token),
                  calls |-> progress.lexed + 1]
    /\ progress' =
         [lexed |-> progress.lexed + 1,
          eofs |-> progress.eofs + (IF r.token.kind = "Eof" THEN 1 ELSE 0),
          lengths |-> progress.lengths + r.token.length,
          stripped |-> AddCounts(progress.stripped, r.origin.counts)]
    /\ calls' = calls \o
         [i \in DOMAIN r.origin.interned |->
            [name |-> r.origin.interned[i].name,
             owned |-> r.origin.interned[i].owned,
             handle |-> r.token.data.id]]

Lex ==
    /\ progress.eofs <= MaxExtraLex
    /\ Lexed(lex(lexer, token, arena, table))
    /\ UNCHANGED <<cat_changes, source_manager, include_stack, session, peeked>>

SetCategoryCode ==
    /\ cat_changes < MaxCatChanges
    /\ \E change \in CatChanges :
         lexer' = [lexer EXCEPT !.category_code_table =
                                    Set(@, change[1], change[2])]
    /\ cat_changes' = cat_changes + 1
    /\ UNCHANGED <<token, previous, origin, previous_origin, progress,
                   arena, table, calls, source_manager, include_stack,
                   session, peeked>>

Next == Lex \/ SetCategoryCode

Spec == Init /\ [][Next]_vars

(***************************************************************************)
(* The same lexer on inputs made of control-sequence pieces.               *)
(***************************************************************************)
InitCtl ==
    \E chunks \in SeqsUpTo(Chunks, MaxChunks) : InitWith(Concat(chunks))

SpecCtl == InitCtl /\ [][Lex]_vars

(***************************************************************************)
(* The same lexer, under the default category codes, on inputs made of     *)
(* line pieces: line terminators, a bare ^^, a letter, a space, a comment. *)
(***************************************************************************)
\* ^^  CR LF  CR  LF  a  space  %
LineChunks == {<<94, 94>>, <<13, 10>>, <<13>>, <<10>>, <<97>>, <<32>>, <<37>>}

InitLine ==
    \E chunks \in SeqsUpTo(LineChunks, MaxLineChunks) :
        InitWith(Concat(chunks))

SpecLine == InitLine /\ [][Lex]_vars

(***************************************************************************)
(* The same loop of lex() calls on inputs of parameter characters, digits, *)
(* a caret expression that decodes to a digit, and a letter.               *)
(***************************************************************************)
\* #  0  1  9  ^^q (decodes to 1)  a
ParamChunks == {<<35>>, <<48>>, <<49>>, <<57>>, <<94, 94, 113>>, <<97>>}

InitParam ==
    \E chunks \in SeqsUpTo(ParamChunks, MaxParamChunks) :
        InitWith(Concat(chunks))

SpecParam == InitParam /\ [][Lex]_vars

(***************************************************************************)
(* The same loop of lex() calls after set_category_code('|', EndOfLine),   *)
(* with or without \r and \n remapped to Other, as the test of the custom  *)
(* newline character sets the lexer up.                                    *)
(***************************************************************************)
\* |  a  LF  CR  ^^M (decodes to CR)  ^^< (decodes to |)
EolChunks == {<<124>>, <<97>>, <<10>>, <<13>>, <<94, 94, 77>>, <<94, 94, 60>>}

\* the set_category_code calls made before the first lex() call
EolTables ==
    {Set(NewCategoryCodeTable, 124, "EndOfLine"),
     Set(Set(Set(NewCategoryCodeTable, 124, "EndOfLine"), CR, "Other"),
         LF, "Other")}

InitEol ==
    \E chunks \in SeqsUpTo(EolChunks, MaxEolChunks), cct \in EolTables :
        /\ lexer = [from_bytes(Concat(chunks)) EXCEPT !.category_code_table = cct]
        /\ token = reset
        /\ previous = reset
        /\ origin = NoOrigin
        /\ previous_origin = NoOrigin
        /\ progress = NoProgress
        /\ arena = <<>>
        /\ table = EmptyTable
        /\ calls = <<>>
        /\ cat_changes = 0
        /\ source_manager = NewSourceManager
        /\ include_stack = <<>>
        /\ session = NoSession
        /\ peeked = NoPeek

SpecEol == InitEol /\ [][Lex]_vars

(***************************************************************************)
(* A category code table alone, keyed by MaybeChar values: characters and  *)
(* raw bytes are assigned categories, from a fresh table on.               *)
(***************************************************************************)
\* A  @  U+00FF  U+10FFFF as characters, 65, 64 and 255 as raw bytes
TableKeys ==
    {from_char(65), from_char(64), from_char(255), from_char(1114111),
     from_non_char_byte(65), from_non_char_byte(64), from_non_char_byte(255)}

SetCategories == {"Letter", "Active", "Other"}

InitCct == InitWith(<<>>)

TableSet ==
    /\ cat_changes < MaxSets
    /\ \E maybe_char \in TableKeys, category_code \in SetCategories :
         lexer' = [lexer EXCEPT !.category_code_table =
                                    Set(@, maybe_char, category_code)]
    /\ cat_changes' = cat_changes + 1
    /\ UNCHANGED <<token, previous, origin, previous_origin, progress,
                   arena, table, calls, source_manager, include_stack,
                   session, peeked>>

SpecCct == InitCct /\ [][TableSet]_vars

(***************************************************************************)
(* The same loop of lex() calls on inputs with bytes from 0x80 up, raw and *)
(* in caret notation, which are Other by default and Letter after          *)
(* set_category_code(0xC8, Letter).                                        *)
(***************************************************************************)
\* 0xC8  0xFF  a  ^^ff  ^^ 0xC8 (decodes to 0x88)  ^^41 (decodes to A)  space
ByteChunks ==
    {<<200>>, <<255>>, <<97>>, <<94, 94, 102, 102>>, <<94, 94, 200>>,
     <<94, 94, 52, 49>>, <<32>>}

ByteTables == {NewCategoryCodeTable, Set(NewCategoryCodeTable, 200, "Letter")}

InitByte ==
    \E chunks \in SeqsUpTo(ByteChunks, MaxByteChunks), cct \in ByteTables :
        /\ lexer = [from_bytes(Concat(chunks)) EXCEPT !.category_code_table = cct]
        /\ token = reset
        /\ previous = reset
        /\ origin = NoOrigin
        /\ previous_origin = NoOrigin
        /\ progress = NoProgress
        /\ arena = <<>>
        /\ table = EmptyTable
        /\ calls = <<>>
        /\ cat_changes = 0
        /\ source_manager = NewSourceManager
        /\ include_stack = <<>>
        /\ session = NoSession
        /\ peeked = NoPeek

SpecByte == InitByte /\ [][Lex]_vars

(***************************************************************************)
(* The same loop of lex() calls, under the default category codes, on      *)
(* inputs with the active character ~.                                     *)
(***************************************************************************)
\* ~  a  \  ^^> (decodes to ~)
ActiveChunks == {<<126>>, <<97>>, <<92>>, <<94, 94, 62>>}

InitActive ==
    \E chunks \in SeqsUpTo(ActiveChunks, MaxActiveChunks) :
        InitWith(Concat(chunks))

SpecActive == InitActive /\ [][Lex]_vars

(***************************************************************************)
(* A preprocessor session: buffers and files are registered with the       *)
(* source manager, a preprocessor is built on it (it borrows the source    *)
(* manager mutably, so from then on files are loaded through it only),     *)
(* files are entered and tokens are lexed.                                 *)
(***************************************************************************)
Buffers ==
    {MemoryBuffer(<<>>, "empty.tex"), MemoryBuffer(<<97>>, "a.tex"),
     MemoryBuffer(<<98, 99>>, "bc.tex")}

\* the path a buffer is registered under: "" for None, the path falls back
\* on the name of the buffer
PathOf(buffer) == IF buffer.buffer_name = "bc.tex" THEN "include/bc.tex" ELSE ""

Paths == {"main.tex", "sub.tex", "missing.tex", "secret.tex"}

InitPp == InitWith(<<>>)

Called(call, ok, error, path, file_id, result) ==
    session' = [session EXCEPT !.call = call, !.ok = ok, !.error = error,
                               !.path = path, !.file_id = file_id,
                               !.result = result]

Added(path, added) ==
    /\ source_manager' = added.source_manager
    /\ Called("add_buffer", TRUE, "", path, added.file_id, TRUE)

AddBuffer ==
    /\ ~session.constructed
    /\ source_manager.next_file_id < MaxFiles
    /\ \E buffer \in Buffers :
         Added(PathOf(buffer), add_buffer(source_manager, buffer, PathOf(buffer)))
    /\ UNCHANGED <<lexer, token, previous, origin, previous_origin, progress,
                   arena, table, calls, cat_changes, include_stack, peeked>>

Loaded(path, loaded) ==
    /\ source_manager' = loaded.source_manager
    /\ Called("load_file", loaded.ok, loaded.error, path, loaded.file_id, TRUE)

LoadFile ==
    /\ ~session.constructed
    /\ source_manager.next_file_id < MaxFiles
    /\ \E path \in Paths : Loaded(path, load_file(source_manager, path))
    /\ UNCHANGED <<lexer, token, previous, origin, previous_origin, progress,
                   arena, table, calls, cat_changes, include_stack, peeked>>

NewPreprocessor ==
    /\ ~session.constructed
    /\ include_stack' = <<>>
    /\ session' = [session EXCEPT !.constructed = TRUE, !.call = "new"]
    /\ UNCHANGED <<lexer, token, previous, origin, previous_origin, progress,
                   arena, table, calls, cat_changes, source_manager, peeked>>

EnteredMain(path, entered) ==
    /\ source_manager' = entered.source_manager
    /\ include_stack' = entered.include_stack
    /\ Called("enter_main_file", entered.ok, entered.error, path,
              INVALID_OFFSET, TRUE)

EnterMainFile ==
    /\ session.constructed
    /\ source_manager.next_file_id < MaxFiles
    /\ Len(include_stack) < MaxDepth
    /\ \E path \in Paths :
         EnteredMain(path, enter_main_file(source_manager, include_stack, path))
    /\ UNCHANGED <<lexer, token, previous, origin, previous_origin, progress,
                   arena, table, calls, cat_changes, peeked>>

EnterFile ==
    /\ session.constructed
    /\ Len(include_stack) < MaxDepth
    /\ \E file_id \in 0..MaxFiles :
         /\ include_stack' = enter_file(source_manager, include_stack, file_id)
         /\ Called("enter_file", TRUE, "", "", file_id, TRUE)
    /\ UNCHANGED <<lexer, token, previous, origin, previous_origin, progress,
                   arena, table, calls, cat_changes, source_manager, peeked>>

PpLexed(r) ==
    /\ include_stack' = r.include_stack
    /\ token' = r.token
    /\ arena' = r.arena
    /\ table' = r.table
    /\ previous' = token
    /\ session' = [session EXCEPT
                     !.call = "lex", !.ok = TRUE, !.error = "", !.path = "",
                     !.file_id = IF current_lexer(include_stack) = 0
                                 THEN INVALID_OFFSET
                                 ELSE include_stack[current_lexer(include_stack)].file_id,
                     !.result = r.result, !.lexed = @ + 1]

PpLex ==
    /\ session.constructed
    /\ session.lexed < MaxPpLex
    /\ PpLexed(Preprocessor_lex(include_stack, token, arena, table))
    /\ UNCHANGED <<lexer, origin, previous_origin, progress, calls,
                   cat_changes, source_manager, peeked>>

NextPp ==
    \/ AddBuffer
    \/ LoadFile
    \/ NewPreprocessor
    \/ EnterMainFile
    \/ EnterFile
    \/ PpLex

SpecPp == InitPp /\ [][NextPp]_vars

(***************************************************************************)
(* A source manager alone: buffers are registered and slices of them are   *)
(* asked for, in a build with overflow checks or in one without.           *)
(***************************************************************************)
\* 0  1  2  3  2^31  u32::MAX - 1  u32::MAX
Offsets ==
    {u32(0), u32(1), u32(2), u32(3), [hi |-> HALF \div 2, lo |-> 0],
     u32_max_less(1), u32_max_less(0)}

GotSlice(file_id, start, len, slice) ==
    session' = [session EXCEPT !.call = "get_buffer_slice",
                               !.file_id = file_id, !.start = start,
                               !.len = len, !.slice = slice]

GetBufferSlice ==
    /\ \E file_id \in 0..MaxFiles, start \in Offsets, len \in Offsets :
         \E overflow_checks \in BOOLEAN :
            GotSlice(file_id, start, len,
                     get_buffer_slice(source_manager, file_id, start, len,
                                      overflow_checks))
    /\ UNCHANGED <<lexer, token, previous, origin, previous_origin, progress,
                   arena, table, calls, cat_changes, source_manager,
                   include_stack, peeked>>

NextSlice == AddBuffer \/ GetBufferSlice

SpecSlice == InitPp /\ [][NextSlice]_vars

(***************************************************************************)
(* The entries of a source manager alone: buffers are registered, and      *)
(* local offsets and global locations are converted into one another on    *)
(* the entries, inside a file, at its end and outside of it.               *)
(***************************************************************************)
\* the offsets and locations up to one behind the watermark
OffsetsOf(sm) == 0..(sm.next_source_offset + 1)

Converted(call, file_id, offset, location) ==
    session' = [session EXCEPT !.call = call, !.file_id = file_id,
                               !.offset = offset, !.location = location]

OffsetToLocation ==
    /\ \E file_id \in DOMAIN source_manager.files :
         \E offset \in OffsetsOf(source_manager) :
            Converted("offset_to_location", file_id, SomeValue(offset),
                      offset_to_location(get_file(source_manager, file_id),
                                         offset))
    /\ UNCHANGED <<lexer, token, previous, origin, previous_origin, progress,
                   arena, table, calls, cat_changes, source_manager,
                   include_stack, peeked>>

LocationToOffset ==
    /\ \E file_id \in DOMAIN source_manager.files :
         \E loc \in OffsetsOf(source_manager) :
            Converted("location_to_offset", file_id,
                      location_to_offset(get_file(source_manager, file_id),
                                         loc),
                      SomeValue(loc))
    /\ UNCHANGED <<lexer, token, previous, origin, previous_origin, progress,
                   arena, table, calls, cat_changes, source_manager,
                   include_stack, peeked>>

NextEntry == AddBuffer \/ OffsetToLocation \/ LocationToOffset

SpecEntry == InitPp /\ [][NextEntry]_vars

(***************************************************************************)
(* A token record alone, driven through its public setters: set_kind,      *)
(* set_token_data and reset, until an assertion fails.                     *)
(***************************************************************************)
Kinds ==
    {"Eof", "Unknown", "ControlWord", "ControlSymbol", "BeginGroup",
     "EndGroup", "MathShift", "AlignmentTab", "Parameter", "Superscript",
     "Subscript", "Space", "Letter", "Other", "ActiveChar", "Paragraph"}

\* None, Char('a'), ParameterIndex(None), ParameterIndex(Some(1)),
\* Symbol(None), Symbol(Some('%')), CommandIdentifier(the first identifier)
Datas ==
    {NoData,
     [variant |-> "Char", bytes |-> <<97>>, id |-> 0],
     [variant |-> "ParameterIndex", bytes |-> <<>>, id |-> 0],
     [variant |-> "ParameterIndex", bytes |-> <<1>>, id |-> 0],
     [variant |-> "Symbol", bytes |-> <<>>, id |-> 0],
     [variant |-> "Symbol", bytes |-> <<37>>, id |-> 0],
     [variant |-> "CommandIdentifier", bytes |-> <<>>, id |-> 1]}

TokenCall(call, ok) == session' = [session EXCEPT !.call = call, !.ok = ok]

SetKind ==
    /\ session.ok
    /\ \E kind \in Kinds : token' = set_kind(token, kind)
    /\ TokenCall("set_kind", TRUE)
    /\ UNCHANGED <<lexer, previous, origin, previous_origin, progress, arena,
                   table, calls, cat_changes, source_manager, include_stack,
                   peeked>>

SetTokenData ==
    /\ session.ok
    /\ \E data \in Datas :
         IF set_token_data_asserts(token.kind, data)
         THEN /\ token' = set_token_data(token, data)
              /\ TokenCall("set_token_data", TRUE)
         ELSE /\ token' = token
              /\ TokenCall("set_token_data", FALSE)
    /\ UNCHANGED <<lexer, previous, origin, previous_origin, progress, arena,
                   table, calls, cat_changes, source_manager, include_stack,
                   peeked>>

Reset ==
    /\ session.ok
    /\ token' = reset
    /\ TokenCall("reset", TRUE)
    /\ UNCHANGED <<lexer, previous, origin, previous_origin, progress, arena,
                   table, calls, cat_changes, source_manager, include_stack,
                   peeked>>

NextToken == SetKind \/ SetTokenData \/ Reset

SpecToken == InitWith(<<>>) /\ [][NextToken]_vars

(***************************************************************************)
(* The decoder of logical characters applied at any position of an input   *)
(* of carets, hex digits and line terminators, between lex() calls on the  *)
(* same input under the default category codes.                            *)
(***************************************************************************)
\* ^  4 (hex digit below 64)  a (hex digit from 64 up)  CR  LF
DecodeBytes == {94, 52, 97, 13, 10}

InitDecode == \E input \in SeqsUpTo(DecodeBytes, MaxDecodeLen) : InitWith(input)

\* get_char_and_size(current_pos) on the lexer, which it borrows immutably
PeekChar ==
    /\ \E current_pos \in 0..(Len(lexer.input) + 1) :
         peeked' = [pos |-> current_pos,
                    char |-> get_char_and_size(lexer.input, current_pos)]
    /\ UNCHANGED <<lexer, token, previous, origin, previous_origin, progress,
                   arena, table, calls, cat_changes, source_manager,
                   include_stack, session>>

NextDecode == PeekChar \/ Lex

SpecDecode == InitDecode /\ [][NextDecode]_vars

(***************************************************************************)
(* The identifier table driven directly: a sequence of get_or_insert calls *)
(* on one table, as the preprocessor's clients and the tests make them.    *)
(***************************************************************************)
\* the bytes of the names: a and the non-UTF-8 byte 0xFF
NameBytes == {97, 255}

InitTable == InitWith(<<>>)

GetOrInsert ==
    /\ Len(calls) < MaxCalls
    /\ \E name_bytes \in SeqsUpTo(NameBytes, MaxNameLen) :
         LET r == get_or_insert(arena, table, name_bytes) IN
           /\ arena' = r.arena
           /\ table' = r.table
           /\ calls' = Append(calls, [name |-> name_bytes, owned |-> FALSE,
                                       handle |-> r.handle])
    /\ UNCHANGED <<lexer, token, previous, origin, previous_origin, progress,
                   cat_changes, source_manager, include_stack, session,
                   peeked>>

SpecTable == InitTable /\ [][GetOrInsert]_vars

(***************************************************************************)
(* Command identifiers                                                     *)
(***************************************************************************)
\* C1: over any sequence of get_or_insert calls on one table, two calls
\* return the same handle if and only if they were given equal bytes.
C1_SameHandleIffSameBytes ==
    \A i, j \in DOMAIN calls :
        (calls[i].handle = calls[j].handle) <=> (calls[i].name = calls[j].name)

\* a name interned twice with the insert of another name in between
C1_Witness ==
    \E i, j, k \in DOMAIN calls :
        /\ i < j /\ j < k
        /\ calls[i].name = calls[k].name
        /\ calls[j].name # calls[i].name
        /\ calls[i].handle = calls[k].handle
        /\ calls[j].handle # calls[i].handle

\* C2: the bytes of the identifier a call returned are the bytes the call was
\* given, at the return and in every later state of the table.
C2_RoundTripStable ==
    \A i \in DOMAIN calls :
        /\ calls[i].handle \in DOMAIN arena
        /\ as_bytes(arena, calls[i].handle) = calls[i].name

\* the empty name and a non-UTF-8 name were interned, and inserts followed
C2_Witness ==
    \E i, j, k \in DOMAIN calls :
        /\ i < k /\ j < k
        /\ calls[i].name = <<>>
        /\ calls[j].name = <<255, 97>>
        /\ calls[k].name \notin {calls[i].name, calls[j].name}
        /\ Len(arena) >= 3

\* C3: two control words of one session whose decoded names are the same
\* bytes carry the same handle, however each name was scanned.
C3_SameNameSameHandle ==
    \A i, j \in DOMAIN calls :
        as_bytes(arena, calls[i].handle) = as_bytes(arena, calls[j].handle)
            => calls[i].handle = calls[j].handle

\* a name scanned zero-copy and the same name built in an owned buffer
C3_Witness ==
    \E i, j \in DOMAIN calls :
        /\ ~calls[i].owned /\ calls[j].owned
        /\ calls[i].name = calls[j].name
        /\ calls[i].handle = calls[j].handle

(***************************************************************************)
(* Token stream                                                            *)
(***************************************************************************)
\* the end of a token in the input
TokenEnd(tok) ==
    IF tok.location = INVALID_OFFSET THEN INVALID_OFFSET
    ELSE tok.location + tok.length

\* the bytes one call or the whole session stripped without a token
Stripped(counts) ==
    counts.ignored + counts.spaces + counts.comment + counts.line

\* C4: two tokens returned one after the other do not overlap and do not go
\* backwards: the first ends at or before the place the second starts,
\* whatever the input and the category-code changes made between calls.
C4_TokensInOrder ==
    progress.lexed >= 2 => TokenEnd(previous) <= token.location

\* bytes were stripped between two tokens after a category-code change
C4_Witness ==
    /\ progress.lexed >= 2
    /\ cat_changes >= 1
    /\ token.kind # "Eof"
    /\ TokenEnd(previous) < token.location

\* C5: every token lies inside the input, the Eof token sits at the end of
\* the input with length 0, and the cursor never passes the end.
C5_InsideInput ==
    /\ lexer.next_token_start_pos <= Len(lexer.input)
    /\ progress.lexed >= 1 =>
         /\ TokenEnd(token) <= Len(lexer.input)
         /\ token.kind = "Eof" =>
              /\ token.location = Len(lexer.input)
              /\ token.length = 0

\* the input ended inside a line that finish_line was discarding, or right
\* after a \r\n pair or a ^^ sequence
C5_Witness ==
    /\ token.kind = "Eof"
    /\ Len(lexer.input) >= 3
    /\ \/ origin.counts.comment >= 2
       \/ previous_origin.counts.line >= 1
       \/ previous.length >= 2

\* C6 as stated: at the end of the input the token lengths and the bytes
\* stripped as Ignored characters and as comments add up to the input.
C6_LengthsIgnoredComments ==
    token.kind = "Eof" =>
        progress.lengths + progress.stripped.ignored
            + progress.stripped.comment = Len(lexer.input)

\* C6, amended: the token lengths and the bytes stripped as Ignored
\* characters, as Space characters, as comments and as the rest of a line
\* after a remapped end-of-line character add up to the cursor, which is the
\* input length at Eof; and the gap in front of a token is made of exactly
\* the bytes stripped since the token before it was formed.
C6_Accounting ==
    /\ progress.lengths + Stripped(progress.stripped)
         = lexer.next_token_start_pos
    /\ token.kind = "Eof" =>
         progress.lengths + Stripped(progress.stripped) = Len(lexer.input)
    /\ progress.lexed >= 2 =>
         token.location - TokenEnd(previous)
             = previous_origin.trailing
                 + (Stripped(origin.counts) - origin.trailing)

\* the input is consumed: it gave a token, Space characters were stripped,
\* and so were bytes of another class
C6_Witness ==
    /\ token.kind = "Eof"
    /\ progress.lengths >= 1
    /\ progress.stripped.spaces >= 1
    /\ \/ progress.stripped.line >= 1
       \/ progress.stripped.comment >= 1
       \/ progress.stripped.ignored >= 1

\* C7: Eof is returned only with the cursor at the end of the input and the
\* whole input accounted for, and once Eof was returned every later call
\* returns Eof again.
C7_EofOnlyAtEnd ==
    /\ token.kind = "Eof" =>
         /\ lexer.next_token_start_pos = Len(lexer.input)
         /\ token.location = Len(lexer.input)
    /\ progress.eofs >= 1 => token.kind = "Eof"
    /\ progress.lexed >= 2 /\ previous.kind = "Eof" => token.kind = "Eof"
    /\ progress.eofs <= 1 => progress.eofs = (IF token.kind = "Eof" THEN 1
                                                                  ELSE 0)

\* lex() was called again after the Eof of a non-empty input
C7_Witness ==
    /\ progress.eofs >= 2
    /\ previous.kind = "Eof"
    /\ token.kind = "Eof"
    /\ progress.lengths >= 1
    /\ Len(lexer.input) >= 2

\* the cursors at the starts of the iterations of one call go up strictly
StrictlyIncreasing(starts) ==
    \A i, j \in DOMAIN starts : i < j => starts[i] < starts[j]

\* C8: every lex() call returns; each restart of its main loop starts at a
\* cursor beyond the one before, every token but Eof has at least one byte,
\* and at most as many tokens as the input has bytes come before Eof.
C8_Progress ==
    /\ origin.category # "Panic"
    /\ StrictlyIncreasing(origin.starts)
    /\ progress.lexed >= 1 /\ token.kind # "Eof" => token.length >= 1
    /\ progress.lexed - progress.eofs <= Len(lexer.input)
    /\ progress.lexed >= Len(lexer.input) + 1 => progress.eofs >= 1

\* a call that restarted its main loop twice before it returned
C8_Witness ==
    /\ Len(origin.starts) >= 3
    /\ progress.lexed >= 1

\* the byte a call dispatched on is a literal \r or \n
LiteralEol(o) == o.category = "EndOfLine" /\ o.ch \in {CR, LF}

\* C9: the first token carries START_OF_LINE, and after a token made from
\* an end-of-line character the next token that is not made from one
\* carries START_OF_LINE, Eof included.
C9_StartOfLineAfterEol ==
    /\ progress.lexed = 1 => at_start_of_line(token)
    /\ progress.lexed >= 2
         /\ previous_origin.category = "EndOfLine"
         /\ origin.category # "EndOfLine"
         => at_start_of_line(token)

\* C10 as stated: an end-of-line character gives Paragraph exactly when its
\* token carries START_OF_LINE and Space otherwise, the first of a run of
\* them right after another token gives Space, and each later one of the
\* run gives Paragraph with START_OF_LINE.
C10_EolRun ==
    /\ origin.category = "EndOfLine" =>
         token.kind = (IF at_start_of_line(token) THEN "Paragraph"
                                                  ELSE "Space")
    /\ progress.lexed >= 2
         /\ previous_origin.category # "EndOfLine"
         /\ origin.category = "EndOfLine"
         /\ token.location = TokenEnd(previous)
         => token.kind = "Space"
    /\ progress.lexed >= 2
         /\ previous_origin.category = "EndOfLine"
         /\ origin.follows = "EndOfLine"
         => /\ origin.category = "EndOfLine"
            /\ token.location = TokenEnd(previous)
            /\ token.kind = "Paragraph"
            /\ at_start_of_line(token)

\* C10, amended: the same, with the later characters of the run yielding
\* Paragraph only after a \r or \n; after a remapped end-of-line character
\* the rest of the line is discarded, so an end-of-line character right
\* after it yields no token of its own.
C10_EolRunAfterLiteral ==
    /\ origin.category = "EndOfLine" =>
         token.kind = (IF at_start_of_line(token) THEN "Paragraph"
                                                  ELSE "Space")
    /\ progress.lexed >= 2
         /\ previous_origin.category # "EndOfLine"
         /\ origin.category = "EndOfLine"
         /\ token.location = TokenEnd(previous)
         => token.kind = "Space"
    /\ progress.lexed >= 2
         /\ LiteralEol(previous_origin)
         /\ origin.follows = "EndOfLine"
         => /\ origin.category = "EndOfLine"
            /\ token.location = TokenEnd(previous)
            /\ token.kind = "Paragraph"
            /\ at_start_of_line(token)
    /\ progress.lexed >= 2
         /\ previous_origin.category = "EndOfLine"
         /\ ~LiteralEol(previous_origin)
         /\ origin.follows = "EndOfLine"
         => token.location > TokenEnd(previous)

\* a Space from the first end-of-line character after a token and a
\* Paragraph from the second
C10_Witness ==
    /\ progress.lexed >= 3
    /\ previous_origin.category = "EndOfLine"
    /\ previous.kind = "Space"
    /\ origin.category = "EndOfLine"
    /\ token.kind = "Paragraph"
    /\ at_start_of_line(token)

(***************************************************************************)
(* Characters                                                              *)
(***************************************************************************)
\* the byte at a 0-based position of the input, -1 outside of it
ByteAt(input, p) == IF p >= 0 /\ p < Len(input) THEN input[p + 1] ELSE -1

\* the token starts at a \r that \n follows
AtCrLf ==
    /\ progress.lexed >= 1
    /\ ByteAt(lexer.input, token.location) = CR
    /\ ByteAt(lexer.input, token.location + 1) = LF

\* a token other than Eof starts at a \n that follows a \r
AtLfOfCrLf ==
    /\ progress.lexed >= 1
    /\ token.kind # "Eof"
    /\ ByteAt(lexer.input, token.location) = LF
    /\ ByteAt(lexer.input, token.location - 1) = CR

\* a token at \r\n is one Space or Paragraph of length 2, and it is a Space
\* when a token of the same line precedes it
CrLfToken ==
    /\ AtCrLf => token.kind \in {"Space", "Paragraph"} /\ token.length = 2
    /\ AtCrLf /\ progress.lexed >= 2
          /\ previous_origin.category # "EndOfLine"
          /\ origin.counts.comment = 0
          => token.kind = "Space"

HexDigitValue(b) ==
    CHOOSE v \in 0..15 :
        \/ v <= 9 /\ b = 48 + v
        \/ v >= 10 /\ b \in {97 + (v - 10), 65 + (v - 10)}

IsHexDigit(b) ==
    \E v \in 0..15 :
        \/ v <= 9 /\ b = 48 + v
        \/ v >= 10 /\ b \in {97 + (v - 10), 65 + (v - 10)}

\* the reference rules for the logical character at position p, written on
\* the bytes at p, p + 1, p + 2, p + 3 (-1 where the input has ended)
ReferenceChar(input, p) ==
    LET b0 == ByteAt(input, p)
        b1 == ByteAt(input, p + 1)
        b2 == ByteAt(input, p + 2)
        b3 == ByteAt(input, p + 3)
    IN IF p >= Len(input) THEN NoChar
       ELSE IF b0 = CARET /\ b1 = CARET /\ b2 # -1
       THEN IF b3 # -1 /\ IsHexDigit(b2) /\ IsHexDigit(b3)
            THEN [some |-> TRUE, size |-> 4, transformed |-> TRUE,
                  ch |-> 16 * HexDigitValue(b2) + HexDigitValue(b3)]
            ELSE [some |-> TRUE, size |-> 3, transformed |-> TRUE,
                  ch |-> IF b2 >= 64 THEN b2 - 64 ELSE b2 + 64]
       ELSE IF b0 = CR /\ b1 = LF
       THEN [some |-> TRUE, size |-> 2, transformed |-> TRUE, ch |-> CR]
       ELSE [some |-> TRUE, size |-> 1, transformed |-> FALSE, ch |-> b0]

\* the token starts at a ^ of a ^^ that has no third byte
AtUndecodedCaret ==
    /\ progress.lexed >= 1
    /\ ByteAt(lexer.input, token.location) = CARET
    /\ \/ /\ ByteAt(lexer.input, token.location + 1) = CARET
          /\ token.location + 2 = Len(lexer.input)
       \/ /\ ByteAt(lexer.input, token.location - 1) = CARET
          /\ token.location + 1 = Len(lexer.input)
          /\ progress.lexed >= 2
          /\ previous.location = token.location - 1

\* C12: at every position the decoder gives what the reference rules give
\* (none exactly at and after the end; ^^xy with two hex digits, 4 bytes,
\* before ^^X, 3 bytes; \r\n as \r, 2 bytes; else the byte itself, 1 byte,
\* not transformed), a value in 0..255, and leaves the lexer as it was; a
\* ^^ with no third byte is not decoded, each ^ is a token by its category.
C12_DecoderAsReference ==
    [][/\ PeekChar =>
            /\ peeked'.char = ReferenceChar(lexer.input, peeked'.pos)
            /\ peeked'.char.some <=> peeked'.pos < Len(lexer.input)
            /\ peeked'.char.ch \in 0..255
            /\ lexer' = lexer
       /\ AtUndecodedCaret' =>
            /\ token'.kind = "Superscript"
            /\ token'.length = 1]_vars

\* the hex form was decoded where the one-character form matches too, on an
\* input that lex() has read to its end
C12_Witness ==
    /\ peeked.pos >= 0
    /\ peeked.char.size = 4
    /\ ByteAt(lexer.input, peeked.pos + 2) = 97
    /\ peeked.char.ch >= 160
    /\ token.kind = "Eof"

(***************************************************************************)
(* Control sequences                                                       *)
(***************************************************************************)
\* by the reference rules: the position after the letters that start at p
RECURSIVE LettersEnd(_, _, _)
LettersEnd(input, cct, p) ==
    LET c == ReferenceChar(input, p) IN
    IF c.some /\ Get(cct, c.ch) = "Letter"
    THEN LettersEnd(input, cct, p + c.size)
    ELSE p

\* by the reference rules: the decoded letters that start at p
RECURSIVE DecodedLetters(_, _, _)
DecodedLetters(input, cct, p) ==
    LET c == ReferenceChar(input, p) IN
    IF c.some /\ Get(cct, c.ch) = "Letter"
    THEN <<c.ch>> \o DecodedLetters(input, cct, p + c.size)
    ELSE <<>>

\* the position after the escape character of a control sequence token
AfterEscape(input, tok) == tok.location + ReferenceChar(input, tok.location).size

\* the logical character at p is a ^^ expression that decodes to a non-letter
CaretNonLetterAt(input, cct, p) ==
    LET c == ReferenceChar(input, p) IN
    /\ c.some /\ c.size >= 3
    /\ Get(cct, c.ch) # "Letter"

\* the token is a control word, and a ^^ expression that decodes to a
\* non-letter follows its letters: the token ends in front of the expression
\* and its identifier is the decoded letters
WordEndsBeforeCaret ==
    LET input == lexer.input
        cct == lexer.category_code_table
        q == LettersEnd(input, cct, AfterEscape(input, token))
    IN progress.lexed >= 1 /\ token.kind = "ControlWord"
         /\ CaretNonLetterAt(input, cct, q)
       => /\ TokenEnd(token) = q
          /\ lexer.next_token_start_pos = q
          /\ token.data.variant = "CommandIdentifier"
          /\ as_bytes(arena, token.data.id)
                = DecodedLetters(input, cct, AfterEscape(input, token))

\* the token before was a control word that a ^^ expression decoding to a
\* non-letter follows
AfterWordBeforeCaret ==
    /\ progress.lexed >= 2
    /\ previous.kind = "ControlWord"
    /\ CaretNonLetterAt(lexer.input, lexer.category_code_table,
                        TokenEnd(previous))

\* C13 as stated: a control word ends in front of a ^^ expression that
\* decodes to a non-letter, with the expression out of its length and of
\* its identifier; the expression is the next token, or is stripped when
\* it decodes to an Ignored character.
C13_CaretAfterWord ==
    /\ WordEndsBeforeCaret
    /\ AfterWordBeforeCaret =>
          IF origin.follows = "Ignored"
          THEN token.location
                 >= TokenEnd(previous)
                      + ReferenceChar(lexer.input, TokenEnd(previous)).size
          ELSE /\ token.location = TokenEnd(previous)
               /\ token.length
                    >= ReferenceChar(lexer.input, TokenEnd(previous)).size

\* C13, amended: the same, the expression being stripped when it decodes to
\* an Ignored character, to a Space character (blanks are skipped after a
\* control word) or to a Comment character, and the next token otherwise.
C13_CaretAfterWordSkipped ==
    /\ WordEndsBeforeCaret
    /\ AfterWordBeforeCaret =>
          IF origin.follows \in {"Ignored", "Space", "Comment"}
          THEN token.location
                 >= TokenEnd(previous)
                      + ReferenceChar(lexer.input, TokenEnd(previous)).size
          ELSE /\ token.location = TokenEnd(previous)
               /\ token.length
                    >= ReferenceChar(lexer.input, TokenEnd(previous)).size

\* \a^^A: the control word a, then ^^A as an Other token of three bytes
C13_Witness ==
    /\ AfterWordBeforeCaret
    /\ previous.length = 2
    /\ as_bytes(arena, previous.data.id) = <<97>>
    /\ token.kind = "Other"
    /\ token.location = TokenEnd(previous)
    /\ token.length = 3

\* by the reference rules: the logical characters of the bytes p .. e - 1
RECURSIVE DecodedRange(_, _, _)
DecodedRange(input, p, e) ==
    LET c == ReferenceChar(input, p) IN
    IF p >= e \/ ~c.some THEN <<>>
    ELSE <<[ch |-> c.ch, raw |-> c.size]>> \o DecodedRange(input, p + c.size, e)

SumRaw(chars) == LET f[i \in 0..Len(chars)] ==
                         IF i = 0 THEN 0 ELSE f[i - 1] + chars[i].raw
                 IN f[Len(chars)]

\* the identifier of the control word token
NameOf(tok) == as_bytes(arena, tok.data.id)

\* C14: the identifier of a control word is the decoded letters consumed
\* after the escape character, in order: the raw input slice when no letter
\* was transformed, and with a transformed letter (the first or a later
\* one) the letters scanned before it, the decoded letter and every further
\* decoded letter; the token length is the number of raw bytes consumed,
\* the escape character included.
C14_NameIsDecodedLetters ==
    progress.lexed >= 1 /\ token.kind = "ControlWord" =>
        LET input == lexer.input
            start == AfterEscape(input, token)
            chars == DecodedRange(input, start, lexer.next_token_start_pos)
            call == calls[Len(calls)]
        IN /\ Len(calls) >= 1
           /\ token.data.variant = "CommandIdentifier"
           /\ Len(chars) >= 1
           /\ \A i \in 1..Len(chars) :
                  Get(lexer.category_code_table, chars[i].ch) = "Letter"
           /\ NameOf(token) = [i \in 1..Len(chars) |-> chars[i].ch]
           /\ call.name = NameOf(token)
           /\ (\A i \in 1..Len(chars) : chars[i].raw = 1)
                => /\ NameOf(token) = Slice(input, start, TokenEnd(token))
                   /\ ~call.owned
           /\ token.length = (start - token.location) + SumRaw(chars)
           /\ lexer.next_token_start_pos = TokenEnd(token)

\* \a^^!^^!: the name aaa of a token of eight bytes, the second and third
\* letters decoded
C14_Witness ==
    /\ token.kind = "ControlWord"
    /\ lexer.input = <<92, 97, 94, 94, 33, 94, 94, 33>>
    /\ token.length = 8
    /\ NameOf(token) = <<97, 97, 97>>
    /\ calls[Len(calls)].owned

\* by the reference rules: the position after the characters of the
\* categories cats that start at p
RECURSIVE RunEnd(_, _, _, _)
RunEnd(input, cct, cats, p) ==
    LET c == ReferenceChar(input, p) IN
    IF c.some /\ Get(cct, c.ch) \in cats
    THEN RunEnd(input, cct, cats, p + c.size)
    ELSE p

\* the category of the logical character at p, "Eof" at the end of input
CategoryAt(input, cct, p) ==
    LET c == ReferenceChar(input, p) IN
    IF c.some THEN Get(cct, c.ch) ELSE "Eof"

\* the category of the character of a control symbol token ("Eof" for an
\* escape character that ends the input)
SymbolCategory(input, cct, tok) ==
    IF tok.length > ReferenceChar(input, tok.location).size
    THEN CategoryAt(input, cct, AfterEscape(input, tok))
    ELSE "Eof"

\* the token before was a control word or a control space
AfterWordOrControlSpace ==
    /\ progress.lexed >= 2
    /\ \/ previous.kind = "ControlWord"
       \/ /\ previous.kind = "ControlSymbol"
          /\ SymbolCategory(lexer.input, lexer.category_code_table, previous)
               = "Space"

\* the token before was a control symbol of another character, and a space
\* follows it
AfterOtherSymbolBeforeSpace ==
    /\ progress.lexed >= 2
    /\ previous.kind = "ControlSymbol"
    /\ SymbolCategory(lexer.input, lexer.category_code_table, previous)
         \notin {"Space", "Eof"}
    /\ CategoryAt(lexer.input, lexer.category_code_table, TokenEnd(previous))
         = "Space"

\* C15: after a control word and after a control space every Space or
\* Ignored character that follows is consumed without a token; after a
\* control symbol of any other character a run of spaces that follows is
\* not skipped: it gives a Space token, unless an end of line or the end of
\* input follows the run.
C15_BlanksAfterControlSequence ==
    LET input == lexer.input
        cct == lexer.category_code_table
        blank_end == RunEnd(input, cct, {"Space", "Ignored"}, TokenEnd(previous))
        space_end == RunEnd(input, cct, {"Space"}, TokenEnd(previous))
    IN /\ AfterWordOrControlSpace =>
            /\ token.location >= blank_end
            /\ origin.counts.spaces + origin.counts.ignored
                  >= blank_end - TokenEnd(previous)
       /\ AfterOtherSymbolBeforeSpace =>
            IF CategoryAt(input, cct, space_end) \in {"EndOfLine", "Eof"}
            THEN token.location >= space_end
            ELSE /\ token.kind = "Space"
                 /\ token.location = TokenEnd(previous)
                 /\ token.length = ReferenceChar(input, TokenEnd(previous)).size

\* "\  a" (a control space, a space, a letter): the letter is the next token
C15_Witness ==
    /\ AfterWordOrControlSpace
    /\ previous.kind = "ControlSymbol"
    /\ CategoryAt(lexer.input, lexer.category_code_table, TokenEnd(previous))
         = "Space"
    /\ token.kind = "Letter"
    /\ token.location = TokenEnd(previous) + 1

C17_ParameterDigit ==
    progress.lexed >= 1 /\ token.kind = "Parameter" =>
        LET digit == ByteAt(lexer.input, token.location + 1) IN
        IF digit \in 49..57
        THEN /\ token.length = 2
             /\ token.data.bytes = <<35, digit>>
        ELSE /\ token.length = 1
             /\ token.data.bytes = <<35>>
             /\ lexer.next_token_start_pos = token.location + 1

\* a lex() call starts in the middle of a line, not skipping blanks, and a
\* Space character is the first character it does not ignore
BeforeSpaceRun ==
    /\ ~lexer.skip_spaces /\ ~lexer.at_start_of_line
    /\ CategoryAt(lexer.input, lexer.category_code_table,
                  RunEnd(lexer.input, lexer.category_code_table, {"Ignored"},
                         lexer.next_token_start_pos)) = "Space"

\* C18: a maximal run of Space characters in the middle of a line gives at
\* most one Space token, at the first space and of the length of that
\* character alone, and no Space token when an EndOfLine character or the
\* end of input follows the run; the cursor ends after every space of it.
C18_SpaceRun ==
    [][progress'.lexed = progress.lexed + 1 /\ BeforeSpaceRun =>
         LET input == lexer.input
             cct == lexer.category_code_table
             first == RunEnd(input, cct, {"Ignored"}, lexer.next_token_start_pos)
             after == RunEnd(input, cct, {"Space"}, first)
         IN /\ lexer'.next_token_start_pos >= after
            /\ IF CategoryAt(input, cct, after) \in {"EndOfLine", "Eof"}
               THEN token'.location >= after
               ELSE /\ token'.kind = "Space"
                    /\ token'.location = first
                    /\ token'.length = ReferenceChar(input, first).size
                    /\ lexer'.next_token_start_pos = after]_vars

\* a^^` a: the Space token of the three bytes of ^^`, the cursor after the
\* space that follows them
C18_Witness ==
    /\ progress.lexed >= 2
    /\ previous.kind = "Letter"
    /\ token.kind = "Space"
    /\ token.location = TokenEnd(previous)
    /\ token.length = 3
    /\ lexer.next_token_start_pos = TokenEnd(token) + 1
    /\ CategoryAt(lexer.input, lexer.category_code_table,
                  lexer.next_token_start_pos) = "Letter"

\* the position after the first literal line terminator (\r, \n, or \r\n
\* as one) at or after q, the length of the input if there is none
LineEnd(input, q) ==
    LET ts == {t \in q..(Len(input) - 1) : ByteAt(input, t) \in {CR, LF}}
        t == CHOOSE t \in ts : \A u \in ts : t <= u
    IN IF ts = {} THEN Len(input)
       ELSE IF ByteAt(input, t) = CR /\ ByteAt(input, t + 1) = LF THEN t + 2
       ELSE t + 1

\* the position of the first character that is neither a blank at the start
\* of a line nor inside a comment, from q on, where a line starts
RECURSIVE AfterComments(_, _, _)
AfterComments(input, cct, q) ==
    IF CategoryAt(input, cct, q) = "Comment"
    THEN IF LineEnd(input, q) < Len(input)
         THEN AfterComments(input, cct,
                            RunEnd(input, cct, {"Space", "Ignored"},
                                   LineEnd(input, q)))
         ELSE Len(input)
    ELSE q

\* the first character that a lex() call does not skip
FirstUnskipped ==
    RunEnd(lexer.input, lexer.category_code_table,
           IF lexer.skip_spaces THEN {"Space", "Ignored"} ELSE {"Ignored"},
           lexer.next_token_start_pos)

\* a lex() call finds a Comment character first
BeforeComment ==
    CategoryAt(lexer.input, lexer.category_code_table, FirstUnskipped)
      = "Comment"

\* C19: a Comment character gives no token: the raw bytes from it through
\* the next literal line terminator, or the end of input, are discarded; if
\* input remains, the next token carries START_OF_LINE and the Space and
\* Ignored characters that lead the next line are skipped.
C19_CommentDiscarded ==
    [][progress'.lexed = progress.lexed + 1 /\ BeforeComment =>
         LET input == lexer.input
             cct == lexer.category_code_table
             line_end == LineEnd(input, FirstUnskipped)
         IN /\ token'.location = AfterComments(input, cct, FirstUnskipped)
            /\ token'.location >= line_end
            /\ origin'.counts.comment >= line_end - FirstUnskipped
            /\ line_end = Len(input) => token'.kind = "Eof"
            /\ line_end < Len(input) =>
                 /\ START_OF_LINE \in token'.flags
                 /\ token'.location
                      >= RunEnd(input, cct, {"Space", "Ignored"}, line_end)]_vars

\* a%\r\na: the second letter is the token after the first, with
\* START_OF_LINE, and the three bytes of the comment are discarded
C19_Witness ==
    /\ progress.lexed >= 2
    /\ previous.kind = "Letter"
    /\ token.kind = "Letter"
    /\ START_OF_LINE \in token.flags
    /\ CategoryAt(lexer.input, lexer.category_code_table, TokenEnd(previous))
         = "Comment"
    /\ origin.counts.comment = 3
    /\ token.location = TokenEnd(previous) + 3

\* the kinds of TokenKind
TokenKinds ==
    {"Eof", "Unknown", "ControlWord", "ControlSymbol", "BeginGroup",
     "EndGroup", "MathShift", "AlignmentTab", "Parameter", "Superscript",
     "Subscript", "Space", "Letter", "Other", "ActiveChar", "Paragraph"}

\* C20: a character of category Invalid is consumed silently: lex() returns
\* no token for it, and no token of a kind outside the sixteen of TokenKind.
C20_InvalidSilent ==
    /\ token.kind \in TokenKinds
    /\ origin.category # "Invalid"

(***************************************************************************)
(* Remapped categories                                                     *)
(***************************************************************************)
\* the token was made from an EndOfLine character that is not a literal \r
\* or \n of the input
RemappedEolToken ==
    /\ progress.lexed >= 1
    /\ origin.category = "EndOfLine"
    /\ ByteAt(lexer.input, token.location) \notin {CR, LF}

\* C21: an EndOfLine character other than a literal \r or \n gives a Space
\* or Paragraph token for itself, and the raw bytes after it, up to and
\* including the next literal \r, \n or \r\n, are discarded without a
\* token, whatever the categories of \r and \n and with no caret decoding.
C21_RemappedEolDiscardsLine ==
    RemappedEolToken =>
        /\ token.kind \in {"Space", "Paragraph"}
        /\ token.length = ReferenceChar(lexer.input, token.location).size
        /\ lexer.next_token_start_pos = LineEnd(lexer.input, TokenEnd(token))

\* the characters whose category differs between two tables; a character
\* that has an entry in neither is Other in both
Recategorized(cct1, cct2) ==
    {ch \in DOMAIN cct1 \cup DOMAIN cct2 : Get(cct1, ch) # Get(cct2, ch)}

\* a set_category_code call changes the category of one character at most;
\* the cursor, the state of the line and the token stay as they are
SetCategoryCodeOnlySets ==
    /\ \E change \in CatChanges :
          /\ Get(lexer'.category_code_table, change[1]) = change[2]
          /\ Recategorized(lexer.category_code_table,
                           lexer'.category_code_table) \subseteq {change[1]}
    /\ lexer'.input = lexer.input
    /\ lexer'.next_token_start_pos = lexer.next_token_start_pos
    /\ lexer'.at_start_of_line = lexer.at_start_of_line
    /\ lexer'.skip_spaces = lexer.skip_spaces
    /\ token' = token

\* a lex() call dispatches by the table as the set_category_code calls left
\* it: on a recategorized character at the cursor, and on whatever
\* character it takes its token from
LexDispatchesByTable ==
    LET input == lexer.input
        cct == lexer.category_code_table
        c == ReferenceChar(input, FirstUnskipped)
        category_code == Get(cct, c.ch)
    IN /\ origin'.category \notin {"Eof", "Panic"} =>
            origin'.category = Get(cct, origin'.ch)
       /\ c.some /\ Get(NewCategoryCodeTable, c.ch) # category_code =>
            /\ origin'.category = category_code
            /\ origin'.ch = c.ch
            /\ token'.location = FirstUnskipped
            /\ category_code = "Other" => token'.kind = "Other"
            /\ category_code = "EndOfLine"
                 => token'.kind \in {"Space", "Paragraph"}

\* C22: a set_category_code(c, k) call between two lex() calls changes the
\* category of c and nothing else (no other character, not the cursor, not
\* at_start_of_line or skip_spaces), and every later lex() call dispatches
\* the occurrences of c at or after the cursor by k.
C22_SetCategoryCodeTakesEffect ==
    [][/\ cat_changes' = cat_changes + 1 => SetCategoryCodeOnlySets
       /\ progress'.lexed = progress.lexed + 1 => LexDispatchesByTable]_vars

\* two \n: the first lexed as an end of line, the second, after
\* set_category_code('\n', Other), as an Other character
C22_Witness ==
    /\ cat_changes = 1
    /\ progress.lexed >= 2
    /\ previous_origin.category = "EndOfLine" /\ previous_origin.ch = LF
    /\ origin.category = "Other" /\ origin.ch = LF
    /\ token.kind = "Other"
    /\ token.location = TokenEnd(previous)

\* C23: an Active character is one ActiveChar token whose payload is the
\* CommandIdentifier got by interning the bytes of the character in the
\* ambient table; two occurrences of one active character carry one handle.
C23_ActiveCharInterned ==
    /\ progress.lexed >= 1 /\ token.kind = "ActiveChar" =>
          /\ origin.category = "Active"
          /\ token.data.variant = "CommandIdentifier"
          /\ NameOf(token) = <<origin.ch>>
          /\ <<origin.ch>> \in DOMAIN table
    /\ /\ progress.lexed >= 2
       /\ token.kind = "ActiveChar" /\ previous.kind = "ActiveChar"
       /\ origin.ch = previous_origin.ch
       => token.data.id = previous.data.id
(***************************************************************************)
(* The preprocessor and the source manager                                 *)
(***************************************************************************)
\* a step that is one Preprocessor::lex call
PpLexStep == session'.lexed = session.lexed + 1

\* the call left the top lexer and the token as one lex() call of the top
\* lexer leaves them (r), and every other entry of the stack as it was
DelegatedToTop(top, r) ==
    /\ Len(include_stack') = top
    /\ include_stack'[top].lexer = r.lexer
    /\ include_stack'[top].file_id = include_stack[top].file_id
    /\ token' = r.token
    /\ \A i \in 1..(top - 1) : include_stack'[i] = include_stack[i]

\* C24: Preprocessor::lex returns false exactly when the include stack is
\* empty; otherwise it returns true after exactly one lex() call on the
\* lexer at the top of the stack, the most recently entered file, and no
\* lexer below the top moves.
C24_LexDelegatesToTop ==
    [][PpLexStep =>
         /\ session'.result = FALSE <=> include_stack = <<>>
         /\ include_stack = <<>> => include_stack' = <<>> /\ token' = token
         /\ include_stack # <<>> =>
              DelegatedToTop(Len(include_stack),
                             lex(include_stack[Len(include_stack)].lexer,
                                 token, arena, table))]_vars

\* two files are on the stack, the file entered last has given a token and
\* the one below it has not moved
C24_Witness ==
    /\ session.call = "lex"
    /\ session.result
    /\ Len(include_stack) = 2
    /\ include_stack[1].file_id # include_stack[2].file_id
    /\ session.file_id = include_stack[2].file_id
    /\ include_stack[2].lexer.next_token_start_pos = 1
    /\ include_stack[1].lexer.next_token_start_pos = 0
    /\ Len(include_stack[1].lexer.input) = 2
    /\ token.kind = "Letter"

\* C25: an Eof token reaches the caller of Preprocessor::lex only from the
\* bottom of the include stack: a lexer above the bottom that reaches Eof is
\* popped and the call retries on its parent, so the tokens left in the
\* parent follow and the Eof of an included file is never surfaced.
C25_EofOnlyFromBottom ==
    session.call = "lex" /\ session.result /\ token.kind = "Eof"
        => Len(include_stack) <= 1

\* a step that is a load_file or an enter_main_file call on a path that
\* std::fs::read fails on
FailedLoadStep ==
    /\ session'.call \in {"load_file", "enter_main_file"}
    /\ ~fs_read(session'.path).ok

\* C26: when the path cannot be read, load_file and enter_main_file return
\* the I/O error of the read as it is and change nothing: no file entry, the
\* next file id and the offset watermark as before, no lexer pushed.
C26_FailedLoadChangesNothing ==
    [][FailedLoadStep =>
         /\ ~session'.ok
         /\ session'.error = fs_read(session'.path).error
         /\ source_manager' = source_manager
         /\ include_stack' = include_stack]_vars

\* enter_main_file has failed on a missing file while a file was registered
\* and its lexer was on the stack
C26_Witness ==
    /\ session.call = "enter_main_file"
    /\ ~session.ok
    /\ session.error = "NotFound"
    /\ source_manager.next_file_id = 1
    /\ file_count(source_manager) = 1
    /\ Len(include_stack) = 1

\* the sizes of the files with an id below file_id, added up
RECURSIVE SizesBelow(_, _)
SizesBelow(sm, file_id) ==
    IF file_id = 0 THEN 0
    ELSE SizesBelow(sm, file_id - 1) + sm.files[file_id - 1].size

\* the offsets of the span of a file
Span(file_entry) == file_entry.start_offset..(end_offset(file_entry) - 1)

\* the files of sm have the ids 0, 1, 2, ... and lie one after the other
\* from offset 0 up to the watermark
LaidOut(sm) ==
    /\ DOMAIN sm.files = 0..(sm.next_file_id - 1)
    /\ \A k \in DOMAIN sm.files :
         /\ sm.files[k].size = Len(sm.files[k].buffer.data)
         /\ sm.files[k].start_offset = SizesBelow(sm, k)
         /\ k + 1 \in DOMAIN sm.files =>
              sm.files[k + 1].start_offset = end_offset(sm.files[k])
         /\ k + 1 = sm.next_file_id =>
              sm.next_source_offset = end_offset(sm.files[k])
    /\ \A j, k \in DOMAIN sm.files :
         j # k => Span(sm.files[j]) \cap Span(sm.files[k]) = {}

\* after is before with one more file, which has the next id and starts at
\* the watermark of before
Inserted(before, after) ==
    /\ DOMAIN after.files = DOMAIN before.files \cup {before.next_file_id}
    /\ before.next_file_id \notin DOMAIN before.files
    /\ after.files[before.next_file_id].start_offset = before.next_source_offset
    /\ \A k \in DOMAIN before.files : after.files[k] = before.files[k]

\* C27: every add_buffer gives the new file the next id and the span that
\* starts at the watermark, which is the sum of the sizes of the files before
\* it; the watermark moves to the end of the new file; the spans of the
\* files are pairwise disjoint and adjacent; the entries already there stay
\* as they were.
C27_AddBufferLayout ==
    [][source_manager' # source_manager =>
         /\ Inserted(source_manager, source_manager')
         /\ LaidOut(source_manager')
         /\ session'.call \in {"add_buffer", "load_file"} =>
              session'.file_id = source_manager.next_file_id]_vars

\* a second file lies behind a first, non-empty one
C27_Witness ==
    /\ source_manager.next_file_id = 2
    /\ source_manager.files[0].size = 2
    /\ source_manager.files[1].start_offset = 2
    /\ source_manager.files[1].size = 1
    /\ source_manager.next_source_offset = 3
    /\ session.file_id = 1

\* the location lies in the span of the file, or at its end for an Eof
InSpanOf(file_entry, tok) ==
    /\ file_entry.start_offset <= tok.location
    /\ \/ tok.location < end_offset(file_entry)
       \/ tok.kind = "Eof" /\ tok.location = end_offset(file_entry)

\* C28: the location of every token lexed from a registered file is a
\* global offset in the span of that file, start_offset <= location <
\* end_offset, or end_offset for an Eof, also when the file does not start
\* at offset 0.
C28_LocationInSpanOfFile ==
    session.call = "lex" /\ session.result
        => InSpanOf(get_file(source_manager, session.file_id), token)

(***************************************************************************)
(* The token record                                                        *)
(***************************************************************************)
\* the kinds of token that carry no data
NoneKinds ==
    {"Eof", "BeginGroup", "EndGroup", "MathShift", "AlignmentTab",
     "Superscript", "Subscript", "Space", "Paragraph"}

\* the TokenData variant the payload of a token amounts to: bytes handed
\* over by set_raw_bytes are read as the variant of the kind they were
\* handed over for; they are never a command identifier
DataVariant(tok) ==
    CASE tok.data.variant # "RawBytes" -> tok.data.variant
      [] tok.data.variant = "RawBytes" /\ tok.kind \in NoneKinds -> "None"
      [] tok.data.variant = "RawBytes" /\ tok.kind \in {"Letter", "Other"} -> "Char"
      [] tok.data.variant = "RawBytes" /\ tok.kind = "ControlSymbol" -> "Symbol"
      [] tok.data.variant = "RawBytes" /\ tok.kind = "Parameter" -> "ParameterIndex"
      [] OTHER -> "RawBytes"

\* the pairs of kind and TokenData variant of a returned token
WellFormedPair(kind, variant) ==
    \/ kind \in NoneKinds /\ variant = "None"
    \/ kind \in {"Letter", "Other"} /\ variant = "Char"
    \/ kind = "ControlSymbol" /\ variant = "Symbol"
    \/ kind = "Parameter" /\ variant = "ParameterIndex"
    \/ kind \in {"ControlWord", "ActiveChar"} /\ variant = "CommandIdentifier"

\* C29: every token lex() returns pairs its kind with the data variant of
\* that kind: None for Eof, the group, math, alignment, script, Space and
\* Paragraph tokens, Char for Letter and Other, Symbol for ControlSymbol,
\* ParameterIndex for Parameter, CommandIdentifier for ControlWord and
\* ActiveChar; no other pair is returned, also when a tentative Space token
\* was formed and discarded on the way.
C29_WellFormedPair ==
    progress.lexed >= 1 => WellFormedPair(token.kind, DataVariant(token))

\* a step that is one lex() call
LexStep == progress'.lexed = progress.lexed + 1

\* the call left the token and the lexer as r, the result of the same call
\* on a record fresh from Token::reset, says
SameAsOnFreshToken(r) ==
    /\ token' = r.token
    /\ lexer' = r.lexer

CharOfToken == ReferenceChar(lexer.input, token.location)

\* C31: the Char payload of a Letter or Other token is the character itself
\* when its byte is a Unicode scalar value, and U+FFFD when it is a lone
\* byte from 0x80 up, raw or decoded from caret notation; the length of the
\* token counts the input bytes the character was written with.
C31_ReplacementCharacter ==
    progress.lexed >= 1 /\ token.kind \in {"Letter", "Other"} =>
        /\ token.length = CharOfToken.size
        /\ char(token) = IF CharOfToken.ch < 128 THEN CharOfToken.ch
                         ELSE REPLACEMENT_CHARACTER

(***************************************************************************)
(* The category code table and its keys                                    *)
(***************************************************************************)
\* the category of a character in plain TeX
PlainTeX(c) ==
    IF c \in (65..90) \cup (97..122) THEN "Letter"
    ELSE IF c = 92 THEN "Escape"
    ELSE IF c = 123 THEN "BeginGroup"
    ELSE IF c = 125 THEN "EndGroup"
    ELSE IF c = 36 THEN "MathShift"
    ELSE IF c = 38 THEN "AlignmentTab"
    ELSE IF c = CR \/ c = LF THEN "EndOfLine"
    ELSE IF c = 35 THEN "Parameter"
    ELSE IF c = CARET THEN "Superscript"
    ELSE IF c = 95 THEN "Subscript"
    ELSE IF c = 0 \/ c = 127 THEN "Ignored"
    ELSE IF c = 32 \/ c = 9 THEN "Space"
    ELSE IF c = 126 THEN "Active"
    ELSE IF c = 37 THEN "Comment"
    ELSE "Other"

\* the characters and the bytes the keys are taken from
SomeChars == (0..255) \cup {8364, 65533, 1114111}
SomeBytes == 0..255

\* a fresh table gives every character its plain-TeX category and every raw
\* byte Other
FreshTableDefaults(cct) ==
    /\ \A c \in SomeChars : Get(cct, from_char(c)) = PlainTeX(c)
    /\ \A b \in SomeBytes : Get(cct, from_non_char_byte(b)) = "Other"

\* no character key is a raw byte key
KeysApart ==
    \A c \in SomeChars, b \in SomeBytes : from_char(c) # from_non_char_byte(b)

\* after is before with one key set: the key has the category and every
\* other key what it had
OneKeySet(before, after) ==
    \E maybe_char \in TableKeys, category_code \in SetCategories :
        /\ Get(after, maybe_char) = category_code
        /\ \A k \in (TableKeys \cup DOMAIN before \cup DOMAIN after) \ {maybe_char} :
             Get(after, k) = Get(before, k)

\* C32: a fresh CategoryCodeTable gives every key its plain-TeX default and
\* Other to every key without one; after set(k, c), get(k) is c and get(k')
\* is what it was for every other key k'. A character key and a raw byte
\* key of the same value are different keys, so setting one leaves the
\* other alone.
C32_TableKeys ==
    [][cat_changes' = cat_changes + 1 =>
         /\ KeysApart
         /\ cat_changes = 0 => FreshTableDefaults(lexer.category_code_table)
         /\ OneKeySet(lexer.category_code_table,
                      lexer'.category_code_table)]_vars

\* the raw byte 65 is Active, the character A is still a Letter, and the
\* character @ has become a Letter
C32_Witness ==
    /\ cat_changes = 2
    /\ Get(lexer.category_code_table, from_non_char_byte(65)) = "Active"
    /\ Get(lexer.category_code_table, from_char(65)) = "Letter"
    /\ Get(lexer.category_code_table, from_char(64)) = "Letter"
    /\ Get(lexer.category_code_table, from_non_char_byte(64)) = "Other"

(***************************************************************************)
(* Slices and offsets of a file                                            *)
(***************************************************************************)
\* the range [start, start + len) lies in a buffer of the given size, the
\* sum taken without wrap-around
InBuffer(start, len, size) ==
    /\ start.hi = 0
    /\ len.hi = 0
    /\ start.lo + len.lo <= size

\* what get_buffer_slice has to return
ExpectedSlice(sm, file_id, start, len) ==
    IF /\ is_file_loaded(sm, file_id)
       /\ InBuffer(start, len, Len(get_buffer_data(sm, file_id).data))
    THEN SomeSlice(SubSeq(get_buffer_data(sm, file_id).data,
                          start.lo + 1, start.lo + len.lo))
    ELSE NoSlice

\* C33: get_buffer_slice(id, start, len) returns the bytes [start, start +
\* len) of the buffer exactly when the file is registered and start + len,
\* taken without wrap-around, is at most the size of the buffer; in every
\* other case it returns None. It never panics and never returns another
\* range, also when start + len overflows 32 bits or start lies behind the
\* end of the buffer.
C33_BufferSlice ==
    session.call = "get_buffer_slice" =>
        session.slice = ExpectedSlice(source_manager, session.file_id,
                                      session.start, session.len)

\* offset_to_location(o) was called on the entry: it answers None exactly
\* when o > size, an offset inside the file comes back from
\* location_to_offset, and the location of the end of the file is not
\* contained in the file
OffsetRoundTrip(file_entry, o, location) ==
    /\ location = NoValue <=> o > file_entry.size
    /\ o < file_entry.size =>
          location_to_offset(file_entry, location.value) = SomeValue(o)
    /\ o = file_entry.size =>
          /\ location = SomeValue(end_offset(file_entry))
          /\ ~contains_location(file_entry, location.value)

\* location_to_offset(L) was called on the entry: L is contained exactly
\* when start_offset <= L < end_offset, and a contained location comes back
\* from offset_to_location
LocationRoundTrip(file_entry, L, offset) ==
    /\ contains_location(file_entry, L) <=> L \in Span(file_entry)
    /\ offset # NoValue <=> L \in Span(file_entry)
    /\ L \in Span(file_entry) =>
          /\ offset = SomeValue(L - file_entry.start_offset)
          /\ offset_to_location(file_entry, offset.value) = SomeValue(L)

\* C34: the offset mapping of a FileEntry round-trips: for every local
\* offset o < size, location_to_offset(offset_to_location(o)) is Some(o); for
\* every location L the entry contains, offset_to_location(
\* location_to_offset(L)) is Some(L); contains_location(L) holds exactly when
\* start_offset <= L < end_offset; offset_to_location(o) is None exactly
\* when o > size, so the offset o = size of the end of the file maps to a
\* location that contains_location rejects.
C34_OffsetMappingRoundTrips ==
    /\ session.call = "offset_to_location" =>
          OffsetRoundTrip(get_file(source_manager, session.file_id),
                          session.offset.value, session.location)
    /\ session.call = "location_to_offset" =>
          LocationRoundTrip(get_file(source_manager, session.file_id),
                            session.location.value, session.offset)

\* the end of the second file, which starts behind a non-empty first file,
\* was converted to its location
C34_Witness ==
    /\ session.call = "offset_to_location"
    /\ session.file_id = 1
    /\ get_file(source_manager, 1).start_offset > 0
    /\ get_file(source_manager, 1).size > 0
    /\ session.offset = SomeValue(get_file(source_manager, 1).size)
    /\ session.location = SomeValue(source_manager.next_source_offset)

(***************************************************************************)
(* The setters of the token record                                         *)
(***************************************************************************)
\* the allowed pairs of kind and TokenData variant, with the pair of a
\* record fresh from reset
AllowedPair(kind, variant) ==
    \/ WellFormedPair(kind, variant)
    \/ kind = "Unknown" /\ variant = "None"

\* C35: the pairing of kind and data is enforced where a token is built:
\* after any sequence of set_kind, set_token_data and reset calls in which no
\* assertion failed, the pair of kind and data variant of the token is an
\* allowed one, so char(), parameter_index(), symbol() and
\* command_identifier(), called on a token of their kind, never reach their
\* unreachable branch.
C35_PairEnforcedBySetters ==
    session.ok =>
        /\ AllowedPair(token.kind, token.data.variant)
        /\ ~reaches_unreachable(token)

(***************************************************************************)
(* Spaces, ignored characters and the end of the input                     *)
(***************************************************************************)
\* C36: in every token stream, for every input and category code table, a
\* Space token never carries START_OF_LINE and a Paragraph token always
\* carries it; whenever at_start_of_line is set at the entry of lex(),
\* skip_spaces is set too, so that no character of category Space is
\* dispatched while the token being formed has START_OF_LINE.
C36_SpaceNeverStartsLine ==
    /\ lexer.at_start_of_line => lexer.skip_spaces
    /\ progress.lexed >= 1 =>
          /\ token.kind = "Space" => ~at_start_of_line(token)
          /\ token.kind = "Paragraph" => at_start_of_line(token)
          /\ origin.counts.flagged = 0

\* a space in the middle of the first line became a Space token, right
\* after the token that starts the line
C36_Witness ==
    /\ progress.lexed = 2
    /\ at_start_of_line(previous)
    /\ token.kind = "Space"
    /\ origin.category = "Space"
    /\ ~at_start_of_line(token)

\* the bytes hex_char_to_value is called with when the logical character at
\* position p is decoded: the two digits of ^^xx, the only character of four
\* bytes
HexOperands(input, p) ==
    IF get_char_and_size(input, p).size = 4
    THEN {input[p + 3], input[p + 4]}
    ELSE {}

\* C37: the unreachable branches are never reached, for any input, category
\* code table and sequence of lex() calls: the dispatch of lex() never sees
\* a character of category Ignored, also after a restart of the main loop,
\* and hex_char_to_value is only ever called with an ASCII hex digit.
C37_UnreachableNeverReached ==
    /\ progress.lexed >= 1 => origin.category # "Panic"
    /\ \A p \in 0..Len(lexer.input) :
          \A ch \in HexOperands(lexer.input, p) :
              hex_char_to_value(ch) # UNREACHABLE

\* a call restarted its main loop after a comment, with an Ignored
\* character at the cursor, and returned a token
C37_Witness ==
    /\ Len(origin.starts) >= 2
    /\ origin.counts.comment >= 1
    /\ peek_char(lexer.input, origin.starts[2]).some
    /\ is_ignored(lexer.category_code_table,
                  peek_char(lexer.input, origin.starts[2]).ch)
    /\ token.kind = "Letter"

\* the call comes after a call that returned Eof: it returns Eof again, at
\* the end of the input, with length 0 and without START_OF_LINE, and the
\* cursor stays
EofAgain ==
    /\ token'.kind = "Eof"
    /\ token'.location = token.location
    /\ token'.location = Len(lexer.input)
    /\ token'.length = 0
    /\ lexer'.next_token_start_pos = lexer.next_token_start_pos
    /\ ~at_start_of_line(token')

\* the call comes right after the token of a line terminator and returns
\* the first Eof, which carries START_OF_LINE
FirstEofAfterTerminator ==
    /\ progress.eofs = 0
    /\ progress.lexed >= 1
    /\ origin.category = "EndOfLine"
    /\ origin.ch \in {CR, LF}
    /\ token'.kind = "Eof"
    => at_start_of_line(token')

\* C38: lex() is idempotent at the end of the input: once a lexer has
\* returned Eof, every further lex() call returns an Eof token with the same
\* location, the length of the input, and length 0, and leaves the cursor
\* where it was; of these Eof tokens only the one of the first call after a
\* line terminator carries START_OF_LINE, the repeated ones never do.
C38_EofIdempotent ==
    [][LexStep => /\ progress.eofs >= 1 => EofAgain
                  /\ FirstEofAfterTerminator]_vars

\* Eof was returned twice after a line terminator at the end of the input:
\* first with START_OF_LINE, then without
C38_Witness ==
    /\ progress.eofs = 2
    /\ progress.lexed >= 4
    /\ previous.kind = "Eof"
    /\ at_start_of_line(previous)
    /\ token.kind = "Eof"
    /\ ~at_start_of_line(token)
    /\ previous_origin.calls = progress.lexed - 1

\* only Space and Ignored characters lie between position p and the next
\* end-of-line character or the end of the input
RECURSIVE OnlyBlanksToEol(_, _)
OnlyBlanksToEol(lx, p) ==
    LET c == peek_char(lx.input, p) IN
    IF ~c.some \/ is_eol(lx.category_code_table, c.ch) THEN TRUE
    ELSE IF Get(lx.category_code_table, c.ch) \in {"Space", "Ignored"}
    THEN OnlyBlanksToEol(lx, p + c.size)
    ELSE FALSE

\* C39: Ignored characters are transparent to the handling of spaces: within
\* one line lex() never returns two consecutive Space tokens that both come
\* from characters of category Space, and never returns a Space token from a
\* character of category Space when only Space and Ignored characters lie
\* between it and the next end-of-line character or the end of the input.
C39_IgnoredTransparentToSpaces ==
    progress.lexed >= 1 /\ token.kind = "Space" /\ origin.category = "Space" =>
        /\ ~(/\ progress.lexed >= 2
              /\ previous.kind = "Space"
              /\ previous_origin.category = "Space")
        /\ ~OnlyBlanksToEol(lexer, token.location + token.length)

(***************************************************************************)
(* Entering a file                                                         *)
(***************************************************************************)
\* a step that is one enter_file call
EnterFileStep ==
    /\ session'.call = "enter_file"
    /\ <<session, include_stack>>' # <<session, include_stack>>

\* the entry is a lexer at the start of the buffer of the file, in the
\* state of a lexer nobody has used, with the table of
\* CategoryCodeTable::new()
FreshLexerOn(entry, sm, file_id) ==
    /\ entry.file_id = file_id
    /\ entry.lexer.input = get_buffer_data(sm, file_id).data
    /\ entry.lexer.next_token_start_pos = 0
    /\ entry.lexer.at_start_of_line
    /\ entry.lexer.skip_spaces
    /\ entry.lexer.category_code_table = NewCategoryCodeTable

\* C40: enter_file(id) pushes exactly one new lexer (cursor 0,
\* at_start_of_line and skip_spaces set, default category codes) on top of
\* the include stack when id is registered in the source manager, and does
\* nothing when it is not; in both cases every lexer already on the stack
\* keeps its cursor, flags and category code table, and the source manager
\* and the identifier table are unchanged.
C40_EnterFilePushesOne ==
    [][EnterFileStep =>
         /\ IF is_file_loaded(source_manager, session'.file_id)
            THEN /\ Len(include_stack') = Len(include_stack) + 1
                 /\ FreshLexerOn(include_stack'[Len(include_stack')],
                                 source_manager, session'.file_id)
            ELSE Len(include_stack') = Len(include_stack)
         /\ \A k \in 1..Len(include_stack) :
               include_stack'[k] = include_stack[k]
         /\ source_manager' = source_manager
         /\ table' = table
         /\ arena' = arena]_vars

\* a second file was entered on top of a lexer that had moved on in its own
\* file
C40_Witness ==
    /\ session.call = "enter_file"
    /\ Len(include_stack) = 2
    /\ include_stack[1].lexer.next_token_start_pos > 0
    /\ ~include_stack[1].lexer.at_start_of_line
    /\ include_stack[2].lexer.next_token_start_pos = 0
    /\ include_stack[2].file_id # include_stack[1].file_id

=============================================================================
